---- MODULE Spec2Model ----
(***************************************************************************)
(* Redline: the review session, the change-set resolver, the document      *)
(* exporter and the review manager (orchestrator).                          *)
(*                                                                         *)
(* A JavaScript string is modelled as a sequence of one-character strings, *)
(* so that trim(), charAt() and the TOML escaping act on characters.       *)
(* An optional value (`T | undefined`, `T | null`) is None or Some(v).      *)
(***************************************************************************)
EXTENDS Integers, Sequences, FiniteSets, Bags, TLC

VARIABLES
    \* ---- ReviewManager and its collaborators --------------------------
    session,          \* ReviewManager.session: None or Some(ReviewSession)
    heap,             \* the ReviewComment objects, by reference
    nextCommentId,    \* module-level counter of reviewSession.ts
    now,              \* the wall clock, in milliseconds
    ticks,            \* number of clock advances so far (bounded)
    sessionsMade,     \* number of ReviewSession objects constructed so far
    ctlSession,       \* ReviewCommentController.session (a session identity)
    provSession,      \* ChangedFilesProvider's session (a session identity)
    activeCtx,        \* the 'redline.active' context flag
    currentFileIndex, \* ReviewManager.currentFileIndex
    cache,            \* DiffContentProvider.cache: key -> the content cached
    fetches,          \* the getFileAtRef calls of the provider in flight
    summaryPanel,     \* ReviewManager.summaryPanel (a panel identity)
    panels,           \* the open ReviewSummaryPanel webviews
    tasks,            \* the handler invocations in flight (suspended at an await)
    disk,             \* the output directory: file name -> content
    hist,             \* history of the run (observation only): the saveReview
                      \* calls that returned and that threw, what each
                      \* successful call was given, the comment ids issued
    \* ---- GitService.getChangedFiles, pass by pass ----------------------
    rpc,              \* the pass about to run
    rFiles,           \* the local `files`
    rSeen             \* the local `seenPaths`

vars == <<session, heap, nextCommentId, now, ticks, sessionsMade, ctlSession,
          provSession, activeCtx, currentFileIndex, cache, fetches, summaryPanel, panels, tasks,
          disk, hist, rpc, rFiles, rSeen>>

mgrVars == <<session, heap, nextCommentId, now, ticks, sessionsMade, ctlSession,
             provSession, activeCtx, currentFileIndex, cache, fetches, summaryPanel, panels,
             tasks, disk, hist>>

resolverVars == <<rpc, rFiles, rSeen>>

None == <<>>
Some(v) == <<v>>
Get(o) == o[1]

----------------------------------------------------------------------------
(* Bounds of the model *)

MaxLines == 2         \* lines one git command prints
MaxComments == 1      \* comments alive in the manager's session
MaxIds == 2           \* comment ids issued in one run of the manager
MaxSessions == 2      \* sessions constructed in one run of the manager
MaxTasks == 1         \* handler invocations suspended at the same time
MaxPanels == 1        \* summary panels left open, unreferenced
MaxSaves == 1         \* saveReview calls in one run of the manager
ExportTicks == 2      \* clock advances in one run of the export pipeline
ExportSessions == 2   \* sessions constructed in one run of the export pipeline
ExportSaves == 2      \* saveReview calls in one run of the export pipeline
ApiSessions == 2      \* ReviewSession objects constructed in one run of the API
ApiIds == 3           \* comment ids issued in one run of the API
ApiComments == 2      \* comments alive in the session under test
StartTasks == 2       \* start, refresh and base-ref commands suspended together
StartSessions == 3    \* sessions constructed in one run of overlapping commands
SnapshotTicks == 2    \* clock advances in one run of the snapshot calls
SnapshotSessions == 1 \* ReviewSession objects constructed in such a run
SnapshotIds == 2      \* comment ids issued in such a run
SnapshotComments == 1 \* comments alive in the session snapshotted
SnapshotCalls == 2    \* toReviewData calls in such a run
SubmitTasks == 2      \* handler invocations suspended together around a submit
SubmitSessions == 2   \* sessions constructed in one run of overlapping submits
SubmitSaves == 2      \* saveReview calls in one run of overlapping submits
PickCommits == 3      \* commits of the history offered by the quick pick
PickSessions == 2     \* sessions constructed in one run of picked starts
CommentTasks == 2     \* handlers suspended while a comment request waits
CommentSessions == 2  \* sessions constructed while comment requests run
CommentCount == 2     \* comment ids issued while comment requests run
RefTasks == 1         \* start invocations suspended while a reference is chosen
RefSessions == 3      \* sessions constructed in one run of chosen references
NavTasks == 2         \* start invocations suspended while the reviewer navigates
NavSessions == 3      \* sessions constructed in one run of navigation
DiffTasks == 1        \* start invocations suspended while contents are fetched
DiffSessions == 2     \* sessions constructed while contents are fetched
TomlLen == 2          \* characters of a comment body in an exported document
TomlComments == 2     \* comments of an exported document that is read back
TomlIds == 3          \* comment ids issued before the document is exported

----------------------------------------------------------------------------
(* Strings *)

IsSpace(c) == c \in {" ", "\t", "\n", "\r"}

RECURSIVE TrimStart(_)
TrimStart(s) ==
    IF s = <<>> THEN <<>>
    ELSE IF IsSpace(Head(s)) THEN TrimStart(Tail(s)) ELSE s

RECURSIVE TrimEnd(_)
TrimEnd(s) ==
    IF s = <<>> THEN <<>>
    ELSE IF IsSpace(s[Len(s)]) THEN TrimEnd(SubSeq(s, 1, Len(s) - 1)) ELSE s

\* String.prototype.trim
Trim(s) == TrimEnd(TrimStart(s))

\* String.prototype.charAt(0): the empty string when there is no character
CharAt0(s) == IF s = <<>> THEN "" ELSE s[1]

SeqToSet(s) == {s[i] : i \in 1..Len(s)}

----------------------------------------------------------------------------
(* GitService.getChangedFiles *)

\* a variant of mapGitStatus whose default is 'added'
MapGitStatusDefaultAdded(code) ==
    CASE code = "A" -> "added"
      [] code = "D" -> "deleted"
      [] code = "R" -> "renamed"
      [] code = "M" -> "modified"
      [] OTHER -> "added"

\* mapGitStatus(code)
MapGitStatus(code) ==
    CASE code = "A" -> "added"
      [] code = "D" -> "deleted"
      [] code = "R" -> "renamed"
      [] OTHER -> "modified"

\* statsByFile.get(key): the Map built from diffSummary.files, later entries
\* overwriting earlier ones; insertions/deletions ?? 0
RECURSIVE StatsGet(_, _)
StatsGet(summary, key) ==
    IF summary = <<>> THEN None
    ELSE LET e == summary[Len(summary)]
         IN IF e.file = key
            THEN Some([additions |-> IF e.insertions = None THEN 0 ELSE Get(e.insertions),
                       deletions |-> IF e.deletions = None THEN 0 ELSE Get(e.deletions)])
            ELSE StatsGet(SubSeq(summary, 1, Len(summary) - 1), key)

\* parts[parts.length === 3 ? 2 : 1].trim()
LinePath(parts) == Trim(parts[IF Len(parts) = 3 THEN 3 ELSE 2])

\* parts.length === 3 ? parts[1].trim() : undefined
LineOldPath(parts) == IF Len(parts) = 3 THEN Some(Trim(parts[2])) ELSE None

\* a variant of SkipLine without the `seen.has(filePath)` test
SkipLineNoDedup(parts, seen) ==
    \/ Len(parts) < 2
    \/ LinePath(parts) = <<>>

\* the `continue` conditions of the three name-status loops
SkipLine(parts, seen) ==
    \/ Len(parts) < 2
    \/ LinePath(parts) = <<>>
    \/ LinePath(parts) \in seen

\* one iteration of the loop of pass 1
CommittedLine(acc, parts, summary) ==
    IF SkipLine(parts, acc.seen) THEN acc
    ELSE LET filePath == LinePath(parts)
             oldPath == LineOldPath(parts)
             byNew == StatsGet(summary, filePath)
             byOld == StatsGet(summary, IF oldPath = None THEN <<>> ELSE Get(oldPath))
             stats == IF byNew # None THEN Get(byNew)
                      ELSE IF byOld # None THEN Get(byOld)
                      ELSE [additions |-> 0, deletions |-> 0]
         IN [files |-> Append(acc.files,
                         [path |-> filePath,
                          status |-> MapGitStatus(CharAt0(parts[1])),
                          additions |-> stats.additions,
                          deletions |-> stats.deletions,
                          oldPath |-> oldPath]),
             seen |-> acc.seen \cup {filePath}]

\* a variant of WorkingLine in which a path already seen takes the status of
\* the later line
WorkingLineLastWins(acc, parts) ==
    IF Len(parts) < 2 \/ LinePath(parts) = <<>> THEN acc
    ELSE IF LinePath(parts) \in acc.seen
    THEN [acc EXCEPT !.files = [i \in 1..Len(@) |->
            IF @[i].path = LinePath(parts)
            THEN [@[i] EXCEPT !.status = MapGitStatus(CharAt0(parts[1]))]
            ELSE @[i]]]
    ELSE [files |-> Append(acc.files,
                      [path |-> LinePath(parts),
                       status |-> MapGitStatus(CharAt0(parts[1])),
                       additions |-> 0,
                       deletions |-> 0,
                       oldPath |-> LineOldPath(parts)]),
          seen |-> acc.seen \cup {LinePath(parts)}]

\* one iteration of the loops of passes 2 and 3
WorkingLine(acc, parts) ==
    IF SkipLine(parts, acc.seen) THEN acc
    ELSE [files |-> Append(acc.files,
                      [path |-> LinePath(parts),
                       status |-> MapGitStatus(CharAt0(parts[1])),
                       additions |-> 0,
                       deletions |-> 0,
                       oldPath |-> LineOldPath(parts)]),
          seen |-> acc.seen \cup {LinePath(parts)}]

\* a variant of UntrackedLine that puts an untracked file before the others
UntrackedLineFirst(acc, rawPath) ==
    LET filePath == Trim(rawPath)
    IN IF filePath = <<>> \/ filePath \in acc.seen THEN acc
       ELSE [files |-> <<[path |-> filePath, status |-> "added",
                          additions |-> 0, deletions |-> 0,
                          oldPath |-> None]>> \o acc.files,
             seen |-> acc.seen \cup {filePath}]

\* one iteration of the loop of pass 4
UntrackedLine(acc, rawPath) ==
    LET filePath == Trim(rawPath)
    IN IF filePath = <<>> \/ filePath \in acc.seen THEN acc
       ELSE [files |-> Append(acc.files,
                         [path |-> filePath, status |-> "added",
                          additions |-> 0, deletions |-> 0,
                          oldPath |-> None]),
             seen |-> acc.seen \cup {filePath}]

RECURSIVE CommittedLoop(_, _, _)
CommittedLoop(acc, lines, summary) ==
    IF lines = <<>> THEN acc
    ELSE CommittedLoop(CommittedLine(acc, Head(lines), summary), Tail(lines), summary)

RECURSIVE WorkingLoop(_, _)
WorkingLoop(acc, lines) ==
    IF lines = <<>> THEN acc
    ELSE WorkingLoop(WorkingLine(acc, Head(lines)), Tail(lines))

RECURSIVE UntrackedLoop(_, _)
UntrackedLoop(acc, lines) ==
    IF lines = <<>> THEN acc
    ELSE UntrackedLoop(UntrackedLine(acc, Head(lines)), Tail(lines))

\* A pass: `out` is what git answered, [threw, lines, summary]; a throwing
\* command is caught by the pass's own try/catch and leaves files untouched.
CommittedPass(acc, out) ==
    IF out.threw THEN acc ELSE CommittedLoop(acc, out.lines, out.summary)

WorkingPass(acc, out) ==
    IF out.threw THEN acc ELSE WorkingLoop(acc, out.lines)

UntrackedPass(acc, out) ==
    IF out.threw THEN acc ELSE UntrackedLoop(acc, out.lines)

\* getChangedFiles(baseRef, headRef) for the answers `git` of the four commands
GetChangedFiles(git) ==
    UntrackedPass(
        WorkingPass(
            WorkingPass(
                CommittedPass([files |-> <<>>, seen |-> {}], git.committed),
                git.staged),
            git.unstaged),
        git.untracked).files

\* git/gitService.ts, the variant that reads the committed diff only: no
\* try/catch, no trim, no `seen` set. One iteration of its loop:
CommittedOnlyLine(files, parts, summary) ==
    IF Len(parts) < 2 THEN files
    ELSE LET filePath == parts[IF Len(parts) = 3 THEN 3 ELSE 2]
             oldPath == IF Len(parts) = 3 THEN Some(parts[2]) ELSE None
             byNew == StatsGet(summary, filePath)
             byOld == StatsGet(summary, IF oldPath = None THEN <<>> ELSE Get(oldPath))
             stats == IF byNew # None THEN Get(byNew)
                      ELSE IF byOld # None THEN Get(byOld)
                      ELSE [additions |-> 0, deletions |-> 0]
         IN Append(files, [path |-> filePath,
                           status |-> MapGitStatus(CharAt0(parts[1])),
                           additions |-> stats.additions,
                           deletions |-> stats.deletions,
                           oldPath |-> oldPath])

RECURSIVE CommittedOnlyLoop(_, _, _)
CommittedOnlyLoop(files, lines, summary) ==
    IF lines = <<>> THEN files
    ELSE CommittedOnlyLoop(CommittedOnlyLine(files, Head(lines), summary),
                           Tail(lines), summary)

\* its getChangedFiles(baseRef, headRef): a rejection of git.raw or of
\* git.diffSummary rejects the call
GetChangedFilesCommittedOnly(out) ==
    IF out.threw THEN [threw |-> TRUE, files |-> <<>>]
    ELSE [threw |-> FALSE, files |-> CommittedOnlyLoop(<<>>, out.lines, out.summary)]

Paths(files) == [i \in 1..Len(files) |-> files[i].path]

NoDuplicates(s) == \A i, j \in 1..Len(s) : s[i] = s[j] => i = j

----------------------------------------------------------------------------
(* ReviewSession *)

SEVERITY_ORDER == <<"must_fix", "suggestion", "nitpick", "question">>
Severities == SeqToSet(SEVERITY_ORDER)
Decisions == {"approve", "comment", "request_changes"}

\* `comment-${n}`
CommentId(n) == <<"comment-", n>>

\* Map.prototype.set on a Map kept in insertion order: an existing key keeps
\* its position and takes the new value
RECURSIVE FilesSet(_, _)
FilesSet(entries, e) ==
    IF entries = <<>> THEN <<e>>
    ELSE IF Head(entries).file.path = e.file.path THEN <<e>> \o Tail(entries)
    ELSE <<Head(entries)>> \o FilesSet(Tail(entries), e)

RECURSIVE FilesFrom(_, _)
FilesFrom(entries, files) ==
    IF files = <<>> THEN entries
    ELSE FilesFrom(FilesSet(entries, [file |-> Head(files), reviewed |-> FALSE]),
                   Tail(files))

\* constructor(baseRef, headRef, files); `sid` is the identity of the object
NewSession(sid, baseRef, headRef, files, date) ==
    [sid |-> sid, baseRef |-> baseRef, headRef |-> headRef, startedAt |-> date,
     files |-> FilesFrom(<<>>, files), comments |-> <<>>]

FileIndex(s, filePath) ==
    {i \in 1..Len(s.files) : s.files[i].file.path = filePath}

HasFile(s, filePath) == FileIndex(s, filePath) # {}

HasComment(s, n) == n \in SeqToSet(s.comments)

\* a variant of IssueId numbering the comments by the size of the Map
IssueIdReused(s, counter) == [n |-> Len(s.comments) + 1, counter |-> counter]

\* the id the next comment takes, and the counter after `nextCommentId++`
IssueId(s, counter) == [n |-> counter, counter |-> counter + 1]

\* a variant of AddComment that puts the new comment before the others
AddCommentPrepends(s, h, counter, file, line, body, severity, endLine, codeContext, date) ==
    LET iss == IssueId(s, counter)
    IN [s |-> [s EXCEPT !.comments =
                 IF iss.n \in SeqToSet(@) THEN @ ELSE <<iss.n>> \o @],
        h |-> (iss.n :> [id |-> CommentId(iss.n), file |-> file, line |-> line,
                         endLine |-> endLine, severity |-> severity,
                         body |-> body, codeContext |-> codeContext,
                         resolved |-> FALSE, timestamp |-> date]) @@ h,
        counter |-> iss.counter,
        ret |-> Some(iss.n)]

\* addComment: returns the session, the heap and the new comment's reference
\* (Map.set: an id already present keeps its position)
AddComment(s, h, counter, file, line, body, severity, endLine, codeContext, date) ==
    LET iss == IssueId(s, counter)
    IN [s |-> [s EXCEPT !.comments =
                 IF iss.n \in SeqToSet(@) THEN @ ELSE Append(@, iss.n)],
        h |-> (iss.n :> [id |-> CommentId(iss.n), file |-> file, line |-> line,
                         endLine |-> endLine, severity |-> severity,
                         body |-> body, codeContext |-> codeContext,
                         resolved |-> FALSE, timestamp |-> date]) @@ h,
        counter |-> iss.counter,
        ret |-> Some(iss.n)]

\* a variant of RemoveComment that reports a deletion whatever the id
RemoveCommentAlwaysTrue(s, n) ==
    [s |-> [s EXCEPT !.comments = SelectSeq(@, LAMBDA r : r # n)],
     ret |-> TRUE]

\* removeComment(commentId): Map.delete
RemoveComment(s, n) ==
    [s |-> [s EXCEPT !.comments = SelectSeq(@, LAMBDA r : r # n)],
     ret |-> HasComment(s, n)]

\* a variant of UpdateComment that reopens the comment it edits and falls
\* back to 'suggestion' when no severity is given
UpdateCommentReopens(s, h, n, body, severity) ==
    IF HasComment(s, n)
    THEN [h EXCEPT ![n].body = body,
                   ![n].resolved = FALSE,
                   ![n].severity = IF severity # None THEN Get(severity)
                                   ELSE "suggestion"]
    ELSE h

\* updateComment(commentId, body, severity?): mutates the comment object
UpdateComment(s, h, n, body, severity) ==
    IF HasComment(s, n)
    THEN [h EXCEPT ![n].body = body,
                   ![n].severity = IF severity # None THEN Get(severity) ELSE @]
    ELSE h

\* a variant of ToggleResolved that answers true for an id it does not find
ToggleResolvedUnknownTrue(s, h, n) ==
    IF HasComment(s, n)
    THEN [h |-> [h EXCEPT ![n].resolved = ~@], ret |-> ~h[n].resolved]
    ELSE [h |-> h, ret |-> TRUE]

\* toggleResolved(commentId)
ToggleResolved(s, h, n) ==
    IF HasComment(s, n)
    THEN [h |-> [h EXCEPT ![n].resolved = ~@], ret |-> ~h[n].resolved]
    ELSE [h |-> h, ret |-> FALSE]

\* markFileReviewed / unmarkFileReviewed / toggleFileReviewed
SetReviewed(s, filePath, flag) ==
    [s EXCEPT !.files = [i \in 1..Len(@) |->
        IF @[i].file.path = filePath THEN [@[i] EXCEPT !.reviewed = flag] ELSE @[i]]]

MarkFileReviewed(s, filePath) == SetReviewed(s, filePath, TRUE)

UnmarkFileReviewed(s, filePath) == SetReviewed(s, filePath, FALSE)

IsFileReviewed(s, filePath) ==
    \E i \in FileIndex(s, filePath) : s.files[i].reviewed

\* a variant of ToggleFileReviewed that only ever sets the flag
ToggleFileReviewedSticky(s, filePath) ==
    IF HasFile(s, filePath)
    THEN [s |-> SetReviewed(s, filePath, TRUE), ret |-> TRUE]
    ELSE [s |-> s, ret |-> FALSE]

\* toggleFileReviewed(filePath): false for a path the session does not have
ToggleFileReviewed(s, filePath) ==
    IF HasFile(s, filePath)
    THEN [s |-> SetReviewed(s, filePath, ~IsFileReviewed(s, filePath)),
          ret |-> ~IsFileReviewed(s, filePath)]
    ELSE [s |-> s, ret |-> FALSE]

\* getComments(): the comment objects themselves, in insertion order
GetComments(s, h) == [i \in 1..Len(s.comments) |-> h[s.comments[i]]]

GetFilePaths(s) == [i \in 1..Len(s.files) |-> s.files[i].file.path]

\* getFiles(): the ChangedFile of every entry, in insertion order
SessionFiles(s) == [i \in 1..Len(s.files) |-> s.files[i].file]

\* comments.filter((c) => c.severity === severity).length
CountSeverity(comments, severity) ==
    Cardinality({i \in 1..Len(comments) : comments[i].severity = severity})

\* Array.from(this._files.values()).filter((e) => e.reviewed).length
CountReviewed(entries) ==
    Cardinality({i \in 1..Len(entries) : entries[i].reviewed})

\* a variant of GetStats whose `questions` filter tests for 'nitpick'
GetStatsSkewed(s, h) ==
    LET comments == GetComments(s, h)
    IN [filesChanged |-> Len(s.files),
        filesReviewed |-> CountReviewed(s.files),
        totalComments |-> Len(comments),
        mustFix |-> CountSeverity(comments, "must_fix"),
        suggestions |-> CountSeverity(comments, "suggestion"),
        nitpicks |-> CountSeverity(comments, "nitpick"),
        questions |-> CountSeverity(comments, "nitpick")]

\* getStats(): recomputed from the Maps at every call
GetStats(s, h) ==
    LET comments == GetComments(s, h)
    IN [filesChanged |-> Len(s.files),
        filesReviewed |-> CountReviewed(s.files),
        totalComments |-> Len(comments),
        mustFix |-> CountSeverity(comments, "must_fix"),
        suggestions |-> CountSeverity(comments, "suggestion"),
        nitpicks |-> CountSeverity(comments, "nitpick"),
        questions |-> CountSeverity(comments, "question")]

\* formatDateId(date): the date to the second, YYYY-MM-DD-HHMMSS; the
\* milliseconds are dropped
FormatDateId(date) == date \div 1000

\* a variant of ToReviewData that names the document after the time of the
\* call instead of the time the session started
ToReviewDataStampedNow(s, h, decision, summary) ==
    [id |-> FormatDateId(now),
     timestamp |-> s.startedAt,
     baseRef |-> s.baseRef,
     headRef |-> s.headRef,
     decision |-> decision,
     summary |-> summary,
     stats |-> GetStats(s, h),
     comments |-> s.comments,
     reviewedFiles |-> [i \in 1..Len(s.files) |->
                          [path |-> s.files[i].file.path,
                           status |-> s.files[i].file.status,
                           reviewed |-> s.files[i].reviewed]]]

\* toReviewData(decision, summary): `comments` holds the comment objects
\* themselves (references), `reviewedFiles` and `stats` are fresh values
ToReviewData(s, h, decision, summary) ==
    [id |-> FormatDateId(s.startedAt),
     timestamp |-> s.startedAt,
     baseRef |-> s.baseRef,
     headRef |-> s.headRef,
     decision |-> decision,
     summary |-> summary,
     stats |-> GetStats(s, h),
     comments |-> s.comments,
     reviewedFiles |-> [i \in 1..Len(s.files) |->
                          [path |-> s.files[i].file.path,
                           status |-> s.files[i].file.status,
                           reviewed |-> s.files[i].reviewed]]]

\* the objects still referenced from `refs`
Collect(h, refs) == [r \in (DOMAIN h) \cap refs |-> h[r]]

----------------------------------------------------------------------------
(* utils/toml.ts *)

RECURSIVE EscapeSingle(_)
\* .replace(/\\/g, '\\\\').replace(/"/g, '\\"').replace(/\t/g, '\\t').replace(/\r/g, '\\r')
EscapeSingle(v) ==
    IF v = <<>> THEN <<>>
    ELSE LET c == Head(v)
             e == CASE c = "\\" -> <<"\\", "\\">>
                    [] c = "\"" -> <<"\\", "\"">>
                    [] c = "\t" -> <<"\\", "t">>
                    [] c = "\r" -> <<"\\", "r">>
                    [] OTHER -> <<c>>
         IN e \o EscapeSingle(Tail(v))

RECURSIVE EscapeBackslash(_)
\* .replace(/\\/g, '\\\\')
EscapeBackslash(v) ==
    IF v = <<>> THEN <<>>
    ELSE (IF Head(v) = "\\" THEN <<"\\", "\\">> ELSE <<Head(v)>>)
         \o EscapeBackslash(Tail(v))

RECURSIVE EscapeTriple(_)
\* .replace(/"""/g, '\\"\\"\\"')
EscapeTriple(v) ==
    IF Len(v) < 3 THEN v
    ELSE IF SubSeq(v, 1, 3) = <<"\"", "\"", "\"">>
         THEN <<"\\", "\"", "\\", "\"", "\\", "\"">> \o EscapeTriple(SubSeq(v, 4, Len(v)))
         ELSE <<Head(v)>> \o EscapeTriple(Tail(v))

\* tomlStr(value)
TomlStr(value) ==
    IF "\n" \in SeqToSet(value)
    THEN <<"\"", "\"", "\"", "\n">> \o EscapeTriple(EscapeBackslash(value))
         \o <<"\n", "\"", "\"", "\"">>
    ELSE <<"\"">> \o EscapeSingle(value) \o <<"\"">>

\* An enumeration value or a number rendered into a template string
Text(t) == <<t>>

CommentLines(c) ==
    <<  <<"[[comments]]">>,
        <<"file = ", TomlStr(c.file)>>,
        <<"line = ", c.line>> >>
    \o (IF c.endLine # None /\ c.endLine # Some(c.line)
        THEN << <<"endLine = ", Get(c.endLine)>> >> ELSE <<>>)
    \o << <<"severity = ", TomlStr(Text(c.severity))>>,
          <<"body = ", TomlStr(c.body)>> >>
    \o (IF c.codeContext # None /\ Get(c.codeContext) # <<>>
        THEN << <<"codeContext = ", TomlStr(Get(c.codeContext))>> >> ELSE <<>>)
    \o << <<"resolved = ", c.resolved>>,
          <<"timestamp = ", c.timestamp>>,
          <<"">> >>

ReviewedFileLines(f) ==
    <<  <<"[[reviewedFiles]]">>,
        <<"path = ", TomlStr(f.path)>>,
        <<"status = ", TomlStr(Text(f.status))>>,
        <<"reviewed = ", f.reviewed>>,
        <<"">> >>

RECURSIVE CommentsLines(_)
\* for (const comment of review.comments) { ... }
CommentsLines(seq) ==
    IF seq = <<>> THEN <<>> ELSE CommentLines(Head(seq)) \o CommentsLines(Tail(seq))

RECURSIVE ReviewedFilesLines(_)
\* for (const file of review.reviewedFiles) { ... }
ReviewedFilesLines(seq) ==
    IF seq = <<>> THEN <<>>
    ELSE ReviewedFileLines(Head(seq)) \o ReviewedFilesLines(Tail(seq))

\* serializeToToml(review): the lines joined by '\n'. `review.comments` are
\* the comment objects, read from the heap at the time of the call.
SerializeToToml(review, h) ==
    <<  <<"# AI Review Output">>,
        <<"# Generated at ", review.timestamp>>,
        <<"">>,
        <<"[review]">>,
        <<"id = ", <<"\"", "review-", review.id, "\"">> >>,
        <<"timestamp = ", review.timestamp>>,
        <<"baseRef = ", TomlStr(review.baseRef)>>,
        <<"headRef = ", TomlStr(review.headRef)>>,
        <<"decision = ", TomlStr(Text(review.decision))>>,
        <<"summary = ", TomlStr(review.summary)>>,
        <<"">>,
        <<"[stats]">>,
        <<"filesChanged = ", review.stats.filesChanged>>,
        <<"filesReviewed = ", review.stats.filesReviewed>>,
        <<"totalComments = ", review.stats.totalComments>>,
        <<"mustFix = ", review.stats.mustFix>>,
        <<"suggestions = ", review.stats.suggestions>>,
        <<"nitpicks = ", review.stats.nitpicks>>,
        <<"questions = ", review.stats.questions>> >>
    \o (IF Len(review.comments) > 0
        THEN << <<"">> >>
             \o CommentsLines([i \in 1..Len(review.comments) |-> h[review.comments[i]]])
        ELSE <<>>)
    \o ReviewedFilesLines(review.reviewedFiles)

----------------------------------------------------------------------------
(* Reading the exported document back: the TOML the serializer's comments  *)
(* name (basic strings, multi-line basic strings, arrays of tables)        *)

RECURSIVE Unescape(_)
\* the escape sequences of a basic string
Unescape(v) ==
    IF v = <<>> THEN <<>>
    ELSE IF Head(v) = "\\" /\ Len(v) >= 2
         THEN LET c == CASE v[2] = "t" -> "\t"
                         [] v[2] = "r" -> "\r"
                         [] v[2] = "n" -> "\n"
                         [] OTHER -> v[2]
              IN <<c>> \o Unescape(SubSeq(v, 3, Len(v)))
         ELSE <<Head(v)>> \o Unescape(Tail(v))

TripleQuote == <<"\"", "\"", "\"">>

\* a string value: between """ and """ a newline right after the opening
\* delimiter is trimmed and every other character, the newline before the
\* closing delimiter included, belongs to the string
ParseTomlStr(token) ==
    IF Len(token) >= 6 /\ SubSeq(token, 1, 3) = TripleQuote
    THEN LET inner == SubSeq(token, 4, Len(token) - 3)
         IN Unescape(IF inner # <<>> /\ Head(inner) = "\n" THEN Tail(inner) ELSE inner)
    ELSE Unescape(SubSeq(token, 2, Len(token) - 1))

RECURSIVE TakeTable(_)
\* the key/value lines that follow a table header
TakeTable(lines) ==
    IF lines = <<>> \/ Len(Head(lines)) # 2 THEN <<>>
    ELSE <<Head(lines)>> \o TakeTable(Tail(lines))

RECURSIVE Tables(_, _)
\* the tables of the array of tables `header`, in the order of the text
Tables(lines, header) ==
    IF lines = <<>> THEN <<>>
    ELSE IF Len(Head(lines)) = 1 /\ Head(lines)[1] = header
         THEN <<TakeTable(Tail(lines))>> \o Tables(Tail(lines), header)
         ELSE Tables(Tail(lines), header)

\* the value of `key` in a table; None when the table has no such key
Field(table, key) ==
    LET at == {i \in 1..Len(table) : table[i][1] = key}
    IN IF at = {} THEN None ELSE Some(table[CHOOSE i \in at : TRUE][2])

StrField(table, key) ==
    IF Field(table, key) = None THEN None
    ELSE Some(ParseTomlStr(Get(Field(table, key))))

ParseComment(table) ==
    [file |-> StrField(table, "file = "),
     line |-> Field(table, "line = "),
     endLine |-> Field(table, "endLine = "),
     severity |-> StrField(table, "severity = "),
     body |-> StrField(table, "body = "),
     codeContext |-> StrField(table, "codeContext = "),
     resolved |-> Field(table, "resolved = "),
     timestamp |-> Field(table, "timestamp = ")]

ParseReviewedFile(table) ==
    [path |-> StrField(table, "path = "),
     status |-> StrField(table, "status = "),
     reviewed |-> Field(table, "reviewed = ")]

\* the comments and reviewedFiles of an exported document
ParseToml(lines) ==
    [comments |->
        LET tables == Tables(lines, "[[comments]]")
        IN [i \in 1..Len(tables) |-> ParseComment(tables[i])],
     reviewedFiles |->
        LET tables == Tables(lines, "[[reviewedFiles]]")
        IN [i \in 1..Len(tables) |-> ParseReviewedFile(tables[i])]]

----------------------------------------------------------------------------
(* review/reviewStorage.ts *)

\* the output directory. (The .gitignore entry ensureGitignore appends lies
\* outside it; ensureGitignore catches its own errors and never throws.)
EmptyDisk == [files |-> <<>>, latest |-> None]

\* what can go wrong in one saveReview call: nothing, mkdirSync throws, the
\* first writeFileSync throws, the second writeFileSync throws
SaveFaults == {"none", "mkdir", "writeFile", "writeLatest"}

\* a variant of SaveReview that leaves an existing latest.toml as it is
SaveReviewStaleLatest(d, review, h, fault) ==
    LET tomlContent == SerializeToToml(review, h)
    IN CASE fault \in {"mkdir", "writeFile"} ->
              [disk |-> d, threw |-> TRUE]
         [] fault = "writeLatest" ->
              [disk |-> [d EXCEPT !.files = (review.id :> tomlContent) @@ @],
               threw |-> TRUE]
         [] OTHER ->
              [disk |-> [d EXCEPT !.files = (review.id :> tomlContent) @@ @,
                                  !.latest = IF @ = None THEN Some(tomlContent) ELSE @],
               threw |-> FALSE]

\* saveReview(workspaceRoot, review): the file `${review.id}.toml` is
\* disk.files[review.id]; latest.toml is disk.latest
SaveReview(d, review, h, fault) ==
    LET tomlContent == SerializeToToml(review, h)
    IN CASE fault \in {"mkdir", "writeFile"} ->
              [disk |-> d, threw |-> TRUE]
         [] fault = "writeLatest" ->
              [disk |-> [d EXCEPT !.files = (review.id :> tomlContent) @@ @],
               threw |-> TRUE]
         [] OTHER ->
              [disk |-> [d EXCEPT !.files = (review.id :> tomlContent) @@ @,
                                  !.latest = Some(tomlContent)],
               threw |-> FALSE]

----------------------------------------------------------------------------
(* The environment of the review manager: what git, the reviewer and the   *)
(* file system can answer                                                  *)

PathA == <<"a">>
PathB == <<"b">>
PathZ == <<"z">>

NoAnswer == [threw |-> FALSE, lines |-> <<>>, summary |-> <<>>]
Throws == [threw |-> TRUE, lines |-> <<>>, summary |-> <<>>]

\* a.ts modified (+3/-1) in the committed diff, b.ts untracked
GitTwoFiles ==
    [committed |-> [threw |-> FALSE,
                    lines |-> << <<<<"M">>, PathA>> >>,
                    summary |-> << [file |-> PathA, insertions |-> Some(3),
                                    deletions |-> Some(1)] >>],
     staged |-> NoAnswer, unstaged |-> NoAnswer,
     untracked |-> [threw |-> FALSE, lines |-> <<PathB>>, summary |-> <<>>]]

\* the committed diff throws (invalid base), b.ts untracked
GitOneFile ==
    [committed |-> Throws, staged |-> NoAnswer, unstaged |-> NoAnswer,
     untracked |-> [threw |-> FALSE, lines |-> <<PathB>>, summary |-> <<>>]]

\* nothing differs
GitNoChanges ==
    [committed |-> NoAnswer, staged |-> NoAnswer, unstaged |-> NoAnswer,
     untracked |-> NoAnswer]

GitScenarios == {GitOneFile, GitNoChanges}

\* the answers of git in the runs of overlapping commands
StartScenarios == {GitTwoFiles, GitOneFile, GitNoChanges}

\* the workspace-relative path of a comment thread's document; None when the
\* document lies outside the workspace root (getRelativePath)
ThreadPaths == {Some(PathB), Some(PathZ), None}

\* the path markFileReviewed works on: the tree item's file, the active
\* editor's document, or nothing
TargetPaths == {Some(PathB), Some(PathZ), None}

\* what the severity pick and the document read answer in one run
PickedSeverities == {"must_fix", "question"}
CodeContexts == {Some(<<"c">>)}
PanelDecisions == {"request_changes"}

ReplyText == <<"x">>
EditedText == <<"y">>
SummaryText == <<"s">>
BaseRefs == {<<"m">>}
HeadRef == <<"H">>

----------------------------------------------------------------------------
(* ReviewManager, ReviewCommentController, ReviewSummaryPanel *)

\* a handler invocation suspended at an await
Task(op, pc, autoFix, path) ==
    [op |-> op, pc |-> pc, autoFix |-> autoFix, path |-> path]

Spawn(t) == tasks (+) SetToBag({t})
Finish(t) == tasks (-) SetToBag({t})
Become(t, u) == (tasks (-) SetToBag({t})) (+) SetToBag({u})
Suspended(op, pc) == {t \in BagToSet(tasks) : t.op = op /\ t.pc = pc}

Active == session # None

\* the comment references of the manager's session
LiveRefs(sess) == IF sess = None THEN {} ELSE SeqToSet(Get(sess).comments)

\* ---- DiffContentProvider -------------------------------------------------
\* A cache key is `${ref}:${filePath}`. The content is represented by what
\* matters of it here: `stale` tells that the fetch that produced it began
\* before the last clearCache().

\* clearCache(): the Map is emptied; the fetches in flight go on
ClearCache ==
    /\ cache' = <<>>
    /\ fetches' = {[f EXCEPT !.stale = TRUE] : f \in fetches}

DiffRest ==
    <<session, heap, nextCommentId, now, ticks, sessionsMade, ctlSession,
      provSession, activeCtx, currentFileIndex, summaryPanel, panels, tasks,
      disk, hist, rpc, rFiles, rSeen>>

\* provideTextDocumentContent(uri) for a uri with a ref, up to
\* `await this.gitService.getFileAtRef(filePath, ref)`: a cached content is
\* returned at once
ProvideContent(key) ==
    /\ fetches' = IF key \in DOMAIN cache THEN fetches
                  ELSE fetches \cup {[key |-> key, stale |-> FALSE]}
    /\ UNCHANGED <<cache, DiffRest>>

\* getFileAtRef has answered, or thrown (ok = FALSE): the content is cached
\* under the key and returned, or '' is returned
ContentFetched(f, ok) ==
    /\ f \in fetches
    /\ fetches' = fetches \ {f}
    /\ cache' = IF ok THEN (f.key :> [stale |-> f.stale]) @@ cache ELSE cache
    /\ UNCHANGED DiffRest

\* a variant of CancelCore that leaves the comment controller and the
\* context flag as they are
CancelCoreKeepsController ==
    /\ session' = None
    /\ heap' = <<>>
    /\ provSession' = None
    /\ currentFileIndex' = 0
    /\ ClearCache
    /\ UNCHANGED <<ctlSession, activeCtx>>

\* cancelReview(): the assignments to the manager and its collaborators
\* (summaryPanel?.dispose() and summaryPanel = null apart)
CancelCore ==
    /\ session' = None
    /\ heap' = <<>>
    /\ ctlSession' = None
    /\ provSession' = None
    /\ currentFileIndex' = 0
    /\ ClearCache
    /\ activeCtx' = FALSE

KeepCore ==
    UNCHANGED <<session, heap, ctlSession, provSession, currentFileIndex, cache, fetches, activeCtx>>

CancelReview ==
    /\ CancelCore
    /\ summaryPanel' = "null"

KeepSession ==
    UNCHANGED <<session, heap, ctlSession, provSession, summaryPanel,
                currentFileIndex, cache, fetches, activeCtx>>

\* a variant of CancelCommand that removes latest.toml with the session
CancelCommandDropsLatest ==
    /\ CancelReview
    /\ disk' = [disk EXCEPT !.latest = None]
    /\ hist' = [hist EXCEPT !.cancelled = @ \/ (Active /\ disk.latest # None)]
    /\ UNCHANGED <<nextCommentId, now, ticks, sessionsMade, panels, tasks,
                   resolverVars>>

\* the command redline.cancelReview. hist.cancelled records that it has
\* discarded a session while an exported document was on disk
CancelCommand ==
    /\ CancelReview
    /\ hist' = [hist EXCEPT !.cancelled = @ \/ (Active /\ disk.latest # None)]
    /\ UNCHANGED <<nextCommentId, now, ticks, sessionsMade, panels, tasks, disk,
                   resolverVars>>

\* the wall clock advances
Tick ==
    /\ ticks' = ticks + 1
    /\ now' = now + 500
    /\ UNCHANGED <<session, heap, nextCommentId, sessionsMade, ctlSession,
                   provSession, activeCtx, currentFileIndex, cache, fetches, summaryPanel,
                   panels, tasks, disk, hist, resolverVars>>

\* ---- startReview ---------------------------------------------------------

\* the entry of startReview, up to its first await
StartEntry(t) ==
    LET pc == IF Active THEN "confirm" ELSE "resolve"
    IN tasks' = IF t = None THEN Spawn(Task("startReview", pc, FALSE, None))
                ELSE Become(Get(t), Task("startReview", pc, FALSE, None))

\* the command redline.startReview
StartReview ==
    /\ StartEntry(None)
    /\ KeepSession
    /\ UNCHANGED <<nextCommentId, now, ticks, sessionsMade, panels, disk, hist,
                   resolverVars>>

\* the warning dialog of startReview answers
StartConfirm(t, discard) ==
    /\ t \in Suspended("startReview", "confirm")
    /\ IF discard
       THEN /\ CancelReview
            /\ tasks' = Become(t, Task("startReview", "resolve", FALSE, None))
       ELSE /\ KeepSession
            /\ tasks' = Finish(t)
    /\ UNCHANGED <<nextCommentId, now, ticks, sessionsMade, panels, disk, hist,
                   resolverVars>>

\* what startReview tells the user when it returns after its awaits: an error
\* message, an information message, or nothing (pickBaseRef was dismissed)
StartNotice(answer, files) ==
    CASE answer = "notGit" -> "error"
      [] answer = "invalidRef" -> "error"
      [] answer = "noRef" -> "none"
      [] answer = "files" /\ Len(files) = 0 -> "information"
      [] OTHER -> "information"

\* a variant of StartCalls that resolves the change set before any check
StartCallsResolveFirst(answer) ==
    CASE answer = "notGit" -> <<"getChangedFiles", "isGitRepo">>
      [] answer = "noRef" -> <<"getChangedFiles", "isGitRepo", "pickBaseRef">>
      [] OTHER -> <<"getChangedFiles", "isGitRepo", "pickBaseRef", "isValidRef">>

\* the calls startReview makes after its entry, in order, up to the one
\* whose answer makes it return
StartCalls(answer) ==
    CASE answer = "notGit" -> <<"isGitRepo">>
      [] answer = "noRef" -> <<"isGitRepo", "pickBaseRef">>
      [] answer = "invalidRef" -> <<"isGitRepo", "pickBaseRef", "isValidRef">>
      [] OTHER -> <<"isGitRepo", "pickBaseRef", "isValidRef", "getChangedFiles">>

\* the rest of startReview: isGitRepo, pickBaseRef, isValidRef and
\* getChangedFiles have answered. `answer` is "notGit", "noRef", "invalidRef"
\* or "files". hist.calls and hist.notice record the calls this invocation
\* made and what it told the user
StartResolve(t, answer, baseRef, git) ==
    /\ t \in Suspended("startReview", "resolve")
    /\ tasks' = Finish(t)
    /\ LET files == GetChangedFiles(git)
       IN IF answer = "files" /\ Len(files) > 0
          THEN /\ sessionsMade' = sessionsMade + 1
               /\ session' = Some(NewSession(sessionsMade + 1, baseRef, HeadRef,
                                             files, now))
               /\ heap' = <<>>
               /\ ctlSession' = Some(sessionsMade + 1)
               /\ provSession' = Some(sessionsMade + 1)
               /\ currentFileIndex' = 0
               /\ ClearCache
               /\ activeCtx' = TRUE
               /\ hist' = [hist EXCEPT !.refreshed = FALSE,
                                       !.calls = StartCalls(answer),
                                       !.notice = StartNotice(answer, files)]
               /\ UNCHANGED summaryPanel
          ELSE /\ KeepSession
               /\ hist' = [hist EXCEPT !.calls = StartCalls(answer),
                                       !.notice = StartNotice(answer, files)]
               /\ UNCHANGED sessionsMade
    /\ UNCHANGED <<nextCommentId, now, ticks, panels, disk, resolverVars>>

\* ---- changeBaseRef -------------------------------------------------------

\* the command redline.changeBaseRef: suspended in pickBaseRef
ChangeBaseRef ==
    /\ tasks' = Spawn(Task("changeBaseRef", "pick", FALSE, None))
    /\ KeepSession
    /\ UNCHANGED <<nextCommentId, now, ticks, sessionsMade, panels, disk, hist,
                   resolverVars>>

\* pickBaseRef has answered
ChangeBaseRefPicked(t, picked) ==
    /\ t \in Suspended("changeBaseRef", "pick")
    /\ IF ~picked
       THEN /\ tasks' = Finish(t)
            /\ KeepSession
       ELSE /\ tasks' = Become(t, Task("changeBaseRef", "update", FALSE, None))
            /\ IF Active THEN CancelReview ELSE KeepSession
    /\ UNCHANGED <<nextCommentId, now, ticks, sessionsMade, panels, disk, hist,
                   resolverVars>>

\* the configuration update has completed: startReview is entered
ChangeBaseRefStart(t) ==
    /\ t \in Suspended("changeBaseRef", "update")
    /\ StartEntry(Some(t))
    /\ KeepSession
    /\ UNCHANGED <<nextCommentId, now, ticks, sessionsMade, panels, disk, hist,
                   resolverVars>>

\* ---- refreshFiles --------------------------------------------------------

\* the command redline.refreshFiles: returns at once without a session,
\* otherwise suspends in getChangedFiles
RefreshFiles ==
    /\ tasks' = IF Active THEN Spawn(Task("refreshFiles", "resolve", FALSE, None))
                ELSE tasks
    /\ KeepSession
    /\ UNCHANGED <<nextCommentId, now, ticks, sessionsMade, panels, disk, hist,
                   resolverVars>>

\* a variant of RefreshResolved that puts the new list into the session
RefreshResolvedReplaces(t, git) ==
    /\ t \in Suspended("refreshFiles", "resolve")
    /\ tasks' = Finish(t)
    /\ LET files == GetChangedFiles(git)
       IN /\ hist' = [hist EXCEPT !.refreshed =
                        @ \/ (Active /\ files # SessionFiles(Get(session)))]
          /\ session' = IF Active
                        THEN Some([Get(session) EXCEPT
                                     !.files = FilesFrom(<<>>, files)])
                        ELSE session
    /\ UNCHANGED <<heap, ctlSession, provSession, summaryPanel,
                   currentFileIndex, cache, fetches, activeCtx>>
    /\ UNCHANGED <<nextCommentId, now, ticks, sessionsMade, panels, disk,
                   resolverVars>>

\* getChangedFiles has answered: the list is logged and dropped, and the
\* tree view is told to redraw from the session it holds. hist.refreshed
\* records that a list other than the session's own has come back
RefreshResolved(t, git) ==
    /\ t \in Suspended("refreshFiles", "resolve")
    /\ tasks' = Finish(t)
    /\ LET files == GetChangedFiles(git)
       IN hist' = [hist EXCEPT !.refreshed =
                     @ \/ (Active /\ files # SessionFiles(Get(session)))]
    /\ KeepSession
    /\ UNCHANGED <<nextCommentId, now, ticks, sessionsMade, panels, disk,
                   resolverVars>>

\* ---- submitReview / handleSubmit / runAutoFix ----------------------------

\* the command redline.submitReview: a new ReviewSummaryPanel is shown; the
\* panel the manager held before stays open, no longer referenced
SubmitReview ==
    /\ IF ~Active
       THEN UNCHANGED <<summaryPanel, panels>>
       ELSE /\ panels' = IF summaryPanel = "open" THEN panels + 1 ELSE panels
            /\ summaryPanel' = "open"
    /\ UNCHANGED <<session, heap, ctlSession, provSession, currentFileIndex, cache, fetches,
                   activeCtx, nextCommentId, now, ticks, sessionsMade, tasks,
                   disk, hist, resolverVars>>

\* a webview is disposed: the manager's (own = TRUE) or an unreferenced one
PanelGone(own) ==
    /\ IF own THEN summaryPanel = "open" ELSE panels > 0
    /\ summaryPanel' = IF own THEN "closed" ELSE summaryPanel
    /\ panels' = IF own THEN panels ELSE panels - 1

\* the reviewer closes a summary panel without submitting
ClosePanel(own) ==
    /\ PanelGone(own)
    /\ UNCHANGED <<session, heap, ctlSession, provSession, currentFileIndex, cache, fetches,
                   activeCtx, nextCommentId, now, ticks, sessionsMade, tasks,
                   disk, hist, resolverVars>>

\* a variant of SubmitCatch that discards the session
SubmitCatchDiscards ==
    CancelCore

\* the catch block of handleSubmit
SubmitCatch ==
    KeepCore

\* a variant of SubmitIdle that writes an empty latest.toml
SubmitIdleWritesEmpty ==
    /\ disk' = [disk EXCEPT !.latest = Some(<<>>)]
    /\ UNCHANGED <<session, heap, ctlSession, provSession, currentFileIndex, cache, fetches,
                   activeCtx, tasks, hist>>

\* handleSubmit when there is no session
SubmitIdle ==
    UNCHANGED <<session, heap, ctlSession, provSession, currentFileIndex, cache, fetches,
                activeCtx, tasks, disk, hist>>

\* a variant of HandleSubmit that starts the hand-off whether or not
\* saveReview threw
HandleSubmitHandsOffAnyway(own, decision, summary, autoFix, fault) ==
    /\ PanelGone(own)
    /\ IF ~Active
       THEN /\ SubmitIdle
       ELSE /\ LET reviewData == ToReviewData(Get(session), heap, decision, summary)
                   saved == SaveReview(disk, reviewData, heap, fault)
               IN /\ disk' = saved.disk
                  /\ KeepCore
                  /\ tasks' = Spawn(Task("handleSubmit",
                                IF autoFix THEN "chatOpen" ELSE "infoDlg",
                                FALSE, None))
                  /\ IF saved.threw
                     THEN hist' = [hist EXCEPT !.failures = @ + 1]
                     ELSE hist' = [hist EXCEPT
                                 !.saves = @ + 1,
                                 !.saved = Append(@,
                                     [sid |-> Get(session).sid,
                                      id |-> reviewData.id,
                                      content |-> SerializeToToml(reviewData, heap)])]
    /\ UNCHANGED <<nextCommentId, now, ticks, sessionsMade, resolverVars>>

\* a panel posts 'submit': handleSubmit runs up to its first suspension (the
\* hand-off or the information dialog), or to the end of its catch block
\* when saveReview throws; then the panel is disposed
HandleSubmit(own, decision, summary, autoFix, fault) ==
    /\ PanelGone(own)
    /\ IF ~Active
       THEN /\ SubmitIdle
       ELSE /\ LET reviewData == ToReviewData(Get(session), heap, decision, summary)
                   saved == SaveReview(disk, reviewData, heap, fault)
               IN /\ disk' = saved.disk
                  /\ IF saved.threw
                     THEN /\ SubmitCatch
                          /\ tasks' = tasks
                          /\ hist' = [hist EXCEPT !.failures = @ + 1]
                     ELSE /\ KeepCore
                          /\ tasks' = Spawn(Task("handleSubmit",
                                        IF autoFix THEN "chatOpen" ELSE "infoDlg",
                                        FALSE, None))
                          /\ hist' = [hist EXCEPT
                                 !.saves = @ + 1,
                                 !.saved = Append(@,
                                     [sid |-> Get(session).sid,
                                      id |-> reviewData.id,
                                      content |-> SerializeToToml(reviewData, heap)])]
    /\ UNCHANGED <<nextCommentId, now, ticks, sessionsMade, resolverVars>>

\* the end of handleSubmit after a successful export: this.cancelReview()
SubmitEnd(t) ==
    /\ CancelReview
    /\ tasks' = Finish(t)

\* a later step of handleSubmit throws: its catch block
SubmitThrow(t) ==
    /\ SubmitCatch
    /\ UNCHANGED summaryPanel
    /\ tasks' = Finish(t)

SubmitWait(t, pc) ==
    /\ KeepSession
    /\ tasks' = Become(t, [t EXCEPT !.pc = pc])

\* runAutoFix: the chat command has completed or thrown
AutoFixOpened(t, ok) ==
    /\ t \in Suspended("handleSubmit", "chatOpen")
    /\ IF ok THEN SubmitEnd(t) ELSE SubmitWait(t, "warnDlg")
    /\ UNCHANGED <<nextCommentId, now, ticks, sessionsMade, panels, disk, hist,
                   resolverVars>>

\* the warning dialog of runAutoFix, or the information dialog of
\* handleSubmit, answers: 'Open Review File' or anything else
DialogAnswered(t, open) ==
    /\ t \in Suspended("handleSubmit", "warnDlg") \cup Suspended("handleSubmit", "infoDlg")
    /\ IF open THEN SubmitWait(t, "openDoc") ELSE SubmitEnd(t)
    /\ UNCHANGED <<nextCommentId, now, ticks, sessionsMade, panels, disk, hist,
                   resolverVars>>

\* openTextDocument / showTextDocument have completed or thrown
DocumentOpened(t, ok) ==
    /\ t \in Suspended("handleSubmit", "openDoc")
    /\ IF ok THEN SubmitEnd(t) ELSE SubmitThrow(t)
    /\ UNCHANGED <<nextCommentId, now, ticks, sessionsMade, panels, disk, hist,
                   resolverVars>>

\* ---- comments (ReviewCommentController) and file review ------------------

\* the session object the comment controller works on: the manager's session
\* when the controller holds it, None when it holds none or another object
CtlObject ==
    IF ctlSession # None /\ session # None /\ Get(session).sid = Get(ctlSession)
    THEN session ELSE None

CommentIds == 1..(MaxIds + 1)

\* handleCreateComment up to `await this.pickSeverity()`. hist.began records
\* the session the controller held when the request passed its entry check
CreateComment(path) ==
    /\ IF ctlSession = None
       THEN UNCHANGED <<tasks, hist>>
       ELSE /\ tasks' = Spawn(Task("createComment", "severity", FALSE, path))
            /\ hist' = [hist EXCEPT !.began = ctlSession]
    /\ KeepSession
    /\ UNCHANGED <<nextCommentId, now, ticks, sessionsMade, panels, disk,
                   resolverVars>>

\* the rest of handleCreateComment: the severity pick and the document read
\* have answered. severity = None: the pick was cancelled.
CreateCommentResumed(t, severity, codeContext) ==
    /\ t \in Suspended("createComment", "severity")
    /\ tasks' = Finish(t)
    /\ IF severity = None \/ t.path = None
       THEN /\ UNCHANGED <<session, heap, nextCommentId>>
            /\ hist' = [hist EXCEPT !.began = None]
       ELSE IF ctlSession = None
       THEN \* this.session.addComment on null: a TypeError ends the handler
            /\ UNCHANGED <<session, heap, nextCommentId>>
            /\ hist' = [hist EXCEPT !.began = None]
       ELSE IF CtlObject = None
       THEN \* the comment goes to a session object nobody else holds
            /\ nextCommentId' = nextCommentId + 1
            /\ hist' = [hist EXCEPT !.began = None, !.issued =
                            Append(@, [sid |-> Get(ctlSession), n |-> nextCommentId])]
            /\ UNCHANGED <<session, heap>>
       ELSE /\ LET r == AddComment(Get(session), heap, nextCommentId, Get(t.path),
                                   1, ReplyText, Get(severity), None, codeContext, now)
               IN /\ session' = Some(r.s)
                  /\ heap' = r.h
                  /\ nextCommentId' = r.counter
                  /\ hist' = [hist EXCEPT !.began = None, !.issued =
                                  Append(@, [sid |-> r.s.sid, n |-> Get(r.ret)])]
    /\ UNCHANGED <<now, ticks, sessionsMade, ctlSession, provSession, activeCtx,
                   currentFileIndex, cache, fetches, summaryPanel, panels, disk, resolverVars>>

\* handleSaveComment(comment): the item carries the severity it was created with
SaveComment(n, body) ==
    /\ IF CtlObject = None
       THEN UNCHANGED heap
       ELSE heap' = UpdateComment(Get(session), heap, n, body,
                      IF HasComment(Get(session), n) THEN Some(heap[n].severity)
                      ELSE Some("suggestion"))
    /\ UNCHANGED <<session, nextCommentId, now, ticks, sessionsMade, ctlSession,
                   provSession, activeCtx, currentFileIndex, cache, fetches, summaryPanel, panels,
                   tasks, disk, hist, resolverVars>>

\* handleDeleteComment(comment)
DeleteComment(n) ==
    /\ IF CtlObject = None
       THEN UNCHANGED <<session, heap>>
       ELSE LET r == RemoveComment(Get(session), n)
            IN /\ session' = Some(r.s)
               /\ heap' = Collect(heap, SeqToSet(r.s.comments))
    /\ UNCHANGED <<nextCommentId, now, ticks, sessionsMade, ctlSession,
                   provSession, activeCtx, currentFileIndex, cache, fetches, summaryPanel, panels,
                   tasks, disk, hist, resolverVars>>

\* handleToggleResolved(comment)
ToggleResolvedComment(n) ==
    /\ IF CtlObject = None
       THEN UNCHANGED heap
       ELSE heap' = ToggleResolved(Get(session), heap, n).h
    /\ UNCHANGED <<session, nextCommentId, now, ticks, sessionsMade, ctlSession,
                   provSession, activeCtx, currentFileIndex, cache, fetches, summaryPanel, panels,
                   tasks, disk, hist, resolverVars>>

\* ReviewManager.markFileReviewed(file?)
MarkReviewed(target) ==
    /\ IF ~Active \/ target = None
       THEN UNCHANGED session
       ELSE session' = Some(ToggleFileReviewed(Get(session), Get(target)).s)
    /\ UNCHANGED <<heap, nextCommentId, now, ticks, sessionsMade, ctlSession,
                   provSession, activeCtx, currentFileIndex, cache, fetches, summaryPanel, panels,
                   tasks, disk, hist, resolverVars>>

\* ---- file navigation -----------------------------------------------------

\* a variant of NextIndex that does not wrap
NextIndexNoWrap(i, n) == i + 1

\* (this.currentFileIndex + 1) % paths.length
NextIndex(i, n) == (i + 1) % n

\* (this.currentFileIndex - 1 + paths.length) % paths.length
PrevIndex(i, n) == (i - 1 + n) % n

\* paths.indexOf(filePath): the first position, from 0, or -1
IndexOf(paths, filePath) ==
    IF \E i \in 1..Len(paths) : paths[i] = filePath
    THEN (CHOOSE i \in 1..Len(paths) :
            /\ paths[i] = filePath
            /\ \A k \in 1..(i - 1) : paths[k] # filePath) - 1
    ELSE -1

\* the index ReviewManager.openFileDiff(file) leaves
IndexAfterOpen(s, filePath, index) ==
    IF IndexOf(GetFilePaths(s), filePath) >= 0
    THEN IndexOf(GetFilePaths(s), filePath) ELSE index

NavRest ==
    <<session, heap, nextCommentId, now, ticks, sessionsMade, ctlSession,
      provSession, activeCtx, summaryPanel, panels, tasks, disk, hist,
      cache, fetches, resolverVars>>

\* ReviewManager.openFileDiff(file): `filePath` is the path of the tree item
\* clicked, which may belong to a session no longer held
OpenFileDiff(filePath) ==
    /\ currentFileIndex' = IF ~Active THEN currentFileIndex
                           ELSE IndexAfterOpen(Get(session), filePath, currentFileIndex)
    /\ UNCHANGED NavRest

\* ReviewManager.nextFile()
NextFile ==
    /\ currentFileIndex' =
         IF ~Active \/ Len(GetFilePaths(Get(session))) = 0 THEN currentFileIndex
         ELSE LET paths == GetFilePaths(Get(session))
                  index == NextIndex(currentFileIndex, Len(paths))
              IN IndexAfterOpen(Get(session), paths[index + 1], index)
    /\ UNCHANGED NavRest

\* ReviewManager.prevFile()
PrevFile ==
    /\ currentFileIndex' =
         IF ~Active \/ Len(GetFilePaths(Get(session))) = 0 THEN currentFileIndex
         ELSE LET paths == GetFilePaths(Get(session))
                  index == PrevIndex(currentFileIndex, Len(paths))
              IN IndexAfterOpen(Get(session), paths[index + 1], index)
    /\ UNCHANGED NavRest

----------------------------------------------------------------------------
(* The review manager as a state machine *)

MgrInit ==
    /\ session = None
    /\ heap = <<>>
    /\ nextCommentId = 1
    /\ now = 0
    /\ ticks = 0
    /\ sessionsMade = 0
    /\ ctlSession = None
    /\ provSession = None
    /\ activeCtx = FALSE
    /\ currentFileIndex = 0
    /\ cache = <<>>
    /\ fetches = {}
    /\ summaryPanel = "null"
    /\ panels = 0
    /\ tasks = EmptyBag
    /\ disk = EmptyDisk
    /\ hist = [saves |-> 0, failures |-> 0, saved |-> <<>>, issued |-> <<>>,
               live |-> 0, offered |-> 0, first |-> <<>>, conflict |-> FALSE,
               doc |-> None, firstDoc |-> None, docs |-> 0, refreshed |-> FALSE,
               parsed |-> None, cancelled |-> FALSE,
               calls |-> <<>>, notice |-> "none", began |-> None]

ResolverIdle ==
    /\ rpc = "idle"
    /\ rFiles = <<>>
    /\ rSeen = {}

Init ==
    /\ MgrInit
    /\ ResolverIdle

\* ---- Spec: the review lifecycle (start, comment, review, submit, cancel) --

Room == BagCardinality(tasks) < MaxTasks

Next ==
    \/ Room /\ StartReview
    \/ \E t \in BagToSet(tasks), discard \in BOOLEAN : StartConfirm(t, discard)
    \/ \E t \in BagToSet(tasks), answer \in {"notGit", "noRef", "invalidRef", "files"},
          baseRef \in BaseRefs, git \in GitScenarios :
            /\ sessionsMade < MaxSessions
            /\ StartResolve(t, answer, baseRef, git)
    \/ Room /\ ChangeBaseRef
    \/ \E t \in BagToSet(tasks), picked \in BOOLEAN : ChangeBaseRefPicked(t, picked)
    \/ \E t \in BagToSet(tasks) : ChangeBaseRefStart(t)
    \/ CancelCommand
    \/ Room /\ RefreshFiles
    \/ \E t \in BagToSet(tasks), git \in GitScenarios : RefreshResolved(t, git)
    \/ panels < MaxPanels /\ SubmitReview
    \/ \E own \in BOOLEAN : ClosePanel(own)
    \/ \E own \in BOOLEAN, decision \in PanelDecisions, autoFix \in BOOLEAN,
          fault \in SaveFaults :
            /\ Room
            /\ hist.saves + hist.failures < MaxSaves
            /\ HandleSubmit(own, decision, SummaryText, autoFix, fault)
    \/ \E t \in BagToSet(tasks), ok \in BOOLEAN : AutoFixOpened(t, ok)
    \/ \E t \in BagToSet(tasks), open \in BOOLEAN : DialogAnswered(t, open)
    \/ \E t \in BagToSet(tasks), ok \in BOOLEAN : DocumentOpened(t, ok)
    \/ \E path \in ThreadPaths : Room /\ CreateComment(path)
    \/ \E t \in BagToSet(tasks), severity \in {None} \cup {Some(v) : v \in PickedSeverities},
          codeContext \in CodeContexts :
            /\ nextCommentId <= MaxIds
            /\ session # None => Len(Get(session).comments) < MaxComments
            /\ CreateCommentResumed(t, severity, codeContext)
    \/ \E n \in CommentIds : SaveComment(n, EditedText)
    \/ \E n \in CommentIds : DeleteComment(n)
    \/ \E n \in CommentIds : ToggleResolvedComment(n)
    \/ \E target \in TargetPaths : MarkReviewed(target)

Spec == Init /\ [][Next]_vars

\* ---- SpecExport: sessions submitted one after the other, on a clock ------

ExportDecisions == {"approve", "request_changes"}

ExportNext ==
    \/ ticks < ExportTicks /\ Tick
    \/ Room /\ StartReview
    \/ \E t \in BagToSet(tasks), discard \in BOOLEAN : StartConfirm(t, discard)
    \/ \E t \in BagToSet(tasks), baseRef \in BaseRefs :
            /\ sessionsMade < ExportSessions
            /\ StartResolve(t, "files", baseRef, GitOneFile)
    \/ panels < MaxPanels /\ SubmitReview
    \/ \E own \in BOOLEAN, decision \in ExportDecisions, autoFix \in BOOLEAN,
          fault \in SaveFaults :
            /\ Room
            /\ hist.saves + hist.failures < ExportSaves
            /\ HandleSubmit(own, decision, SummaryText, autoFix, fault)
    \/ \E t \in BagToSet(tasks), ok \in BOOLEAN : AutoFixOpened(t, ok)
    \/ \E t \in BagToSet(tasks), open \in BOOLEAN : DialogAnswered(t, open)
    \/ \E t \in BagToSet(tasks), ok \in BOOLEAN : DocumentOpened(t, ok)
    \/ MarkReviewed(Some(PathB))

SpecExport == Init /\ [][ExportNext]_vars

\* The export pipeline with the one progress guarantee the handlers have:
\* opening a document on the local disk settles (resolves or rejects). A
\* command handed to the chat panel and a notification waiting for the
\* reviewer's click have no such guarantee.
DocumentSettles == \E t \in BagToSet(tasks), ok \in BOOLEAN : DocumentOpened(t, ok)

SpecExportFair == SpecExport /\ WF_vars(DocumentSettles)

\* ---- SpecSubmit: submits, cancels and starts that overlap ------------------

SubmitRoom == BagCardinality(tasks) < SubmitTasks

SubmitNext ==
    \/ SubmitRoom /\ StartReview
    \/ \E t \in BagToSet(tasks), discard \in BOOLEAN : StartConfirm(t, discard)
    \/ \E t \in BagToSet(tasks), answer \in {"notGit", "files"},
          baseRef \in BaseRefs :
            /\ sessionsMade < SubmitSessions
            /\ StartResolve(t, answer, baseRef, GitOneFile)
    \/ CancelCommand
    \/ panels < MaxPanels /\ SubmitReview
    \/ \E own \in BOOLEAN : ClosePanel(own)
    \/ \E own \in BOOLEAN, decision \in ExportDecisions, autoFix \in BOOLEAN,
          fault \in SaveFaults :
            /\ SubmitRoom
            /\ hist.saves + hist.failures < SubmitSaves
            /\ HandleSubmit(own, decision, SummaryText, autoFix, fault)
    \/ \E t \in BagToSet(tasks), ok \in BOOLEAN : AutoFixOpened(t, ok)
    \/ \E t \in BagToSet(tasks), open \in BOOLEAN : DialogAnswered(t, open)
    \/ \E t \in BagToSet(tasks), ok \in BOOLEAN : DocumentOpened(t, ok)
    \/ MarkReviewed(Some(PathB))

SpecSubmit == Init /\ [][SubmitNext]_vars

\* ---- SpecPick: reviews started from a commit picked in the history -------
\* a history is the sequence of its commits, oldest first, each commit the
\* set of paths it changes; the working tree is clean and HEAD is the last

PickPaths == <<PathA, PathB, PathZ>>
Histories == [1..PickCommits -> (SUBSET SeqToSet(PickPaths)) \ {{}}]

\* the hash of the k-th commit
HashOf(k) == <<"c", ToString(k)>>

\* the empty tree of git
EmptyTree == <<"4b825dc">>

\* pickBaseRef when the k-th commit is picked: its parent `hash~1`, or the
\* empty tree when isValidRef finds no parent
PickBaseRef(k) ==
    IF k > 1 THEN HashOf(k) \o <<"~", "1">> ELSE EmptyTree

\* the commit a base reference made by PickBaseRef names; 0 is the empty tree
BaseIndex(k) == k - 1

\* `git diff --name-status base head` on a history: one line for every path
\* changed by a commit after `base` up to `head`, A when the path first
\* appears after `base`, M otherwise
DiffLines(history, base, head) ==
    LET touched(p, lo, hi) == \E i \in lo..hi : p \in history[i]
        changed == SelectSeq(PickPaths, LAMBDA p : touched(p, base + 1, head))
    IN [i \in 1..Len(changed) |->
          << (IF touched(changed[i], 1, base) THEN <<"M">> ELSE <<"A">>),
             changed[i] >>]

\* what git answers to getChangedFiles(base, HEAD) on a clean working tree
GitAnswer(history, base, head) ==
    [committed |-> [threw |-> FALSE, lines |-> DiffLines(history, base, head),
                    summary |-> <<>>],
     staged |-> NoAnswer, unstaged |-> NoAnswer, untracked |-> NoAnswer]

\* the rest of startReview when the k-th commit of `history` is picked
StartPicked(t, history, k) ==
    StartResolve(t, "files", PickBaseRef(k),
                 GitAnswer(history, BaseIndex(k), Len(history)))

PickNext ==
    \/ Room /\ StartReview
    \/ \E t \in BagToSet(tasks), discard \in BOOLEAN : StartConfirm(t, discard)
    \/ \E t \in BagToSet(tasks), history \in Histories, k \in 1..PickCommits :
            /\ sessionsMade < PickSessions
            /\ StartPicked(t, history, k)
    \/ CancelCommand
    \/ \E p \in SeqToSet(PickPaths) : MarkReviewed(Some(p))

SpecPick == Init /\ [][PickNext]_vars

\* ---- SpecComment: comment requests that overlap start and cancel ---------

CommentRoom == BagCardinality(tasks) < CommentTasks

CommentNext ==
    \/ CommentRoom /\ StartReview
    \/ \E t \in BagToSet(tasks), discard \in BOOLEAN : StartConfirm(t, discard)
    \/ \E t \in BagToSet(tasks), git \in {GitOneFile, GitTwoFiles} :
            /\ sessionsMade < CommentSessions
            /\ StartResolve(t, "files", <<"m">>, git)
    \/ CancelCommand
    \/ \E path \in ThreadPaths :
            /\ CommentRoom
            /\ Suspended("createComment", "severity") = {}
            /\ CreateComment(path)
    \/ \E t \in BagToSet(tasks), severity \in {None} \cup {Some(v) : v \in PickedSeverities},
          codeContext \in CodeContexts :
            /\ nextCommentId <= CommentCount
            /\ CreateCommentResumed(t, severity, codeContext)
    \/ \E n \in 1..CommentCount : DeleteComment(n)

SpecComment == Init /\ [][CommentNext]_vars

\* ---- SpecRef: reviews started from a reference that may not exist --------
\* `validRefs` is what `git rev-parse` accepts during one start

\* the baseRef of the quick-pick items and what the reviewer may type: the
\* configured default, the parent of the second commit, the parent of the
\* initial commit
ChosenRefs == {<<"m">>, HashOf(2) \o <<"~", "1">>, HashOf(1) \o <<"~", "1">>}

\* isValidRef(ref)
IsValidRef(ref, validRefs) == ref \in validRefs

\* pickBaseRef once a reference is selected: the quick pick replaces a
\* reference isValidRef rejects by the empty tree, the input box (shown when
\* the quick pick could not be built) returns what was typed
SelectedBaseRef(selectedRef, validRefs, typed) ==
    IF typed \/ IsValidRef(selectedRef, validRefs) THEN selectedRef ELSE EmptyTree

\* the rest of startReview when `selectedRef` is chosen in pickBaseRef
StartChosen(t, selectedRef, validRefs, typed, git) ==
    LET baseRef == SelectedBaseRef(selectedRef, validRefs, typed)
    IN StartResolve(t, IF IsValidRef(baseRef, validRefs) THEN "files"
                       ELSE "invalidRef",
                    baseRef, git)

RefNext ==
    \/ BagCardinality(tasks) < RefTasks /\ StartReview
    \/ \E t \in BagToSet(tasks), discard \in BOOLEAN : StartConfirm(t, discard)
    \/ \E t \in BagToSet(tasks), selectedRef \in ChosenRefs,
          validRefs \in SUBSET (ChosenRefs \cup {EmptyTree}), typed \in BOOLEAN,
          git \in StartScenarios :
            /\ sessionsMade < RefSessions
            /\ StartChosen(t, selectedRef, validRefs, typed, git)
    \/ CancelCommand
    \/ \E target \in TargetPaths : MarkReviewed(target)

SpecRef == Init /\ [][RefNext]_vars

\* ---- SpecNav: navigation among start and cancel commands -----------------

NavNext ==
    \/ BagCardinality(tasks) < NavTasks /\ StartReview
    \/ \E t \in BagToSet(tasks), discard \in BOOLEAN : StartConfirm(t, discard)
    \/ \E t \in BagToSet(tasks), answer \in {"noRef", "files"}, git \in StartScenarios :
            /\ sessionsMade < NavSessions
            /\ StartResolve(t, answer, <<"m">>, git)
    \/ CancelCommand
    \/ \E filePath \in {PathA, PathB, PathZ} : OpenFileDiff(filePath)
    \/ NextFile
    \/ PrevFile
    \/ MarkReviewed(Some(PathB))

SpecNav == Init /\ [][NavNext]_vars

\* ---- SpecDiff: contents fetched for the diff views among start and cancel -

\* the keys of the left sides of the diff views: base reference and path
DiffKeys == {[ref |-> <<"m">>, path |-> p] : p \in {PathA, PathB}}

DiffNext ==
    \/ BagCardinality(tasks) < DiffTasks /\ StartReview
    \/ \E t \in BagToSet(tasks), discard \in BOOLEAN : StartConfirm(t, discard)
    \/ \E t \in BagToSet(tasks), git \in {GitTwoFiles, GitOneFile} :
            /\ sessionsMade < DiffSessions
            /\ StartResolve(t, "files", <<"m">>, git)
    \/ CancelCommand
    \/ \E key \in DiffKeys : ProvideContent(key)
    \/ \E f \in fetches, ok \in BOOLEAN : ContentFetched(f, ok)

SpecDiff == Init /\ [][DiffNext]_vars

\* ---- SpecStart: start, refresh and cancel commands that overlap -----------

StartRoom == BagCardinality(tasks) < StartTasks

StartNext ==
    \/ StartRoom /\ StartReview
    \/ \E t \in BagToSet(tasks), discard \in BOOLEAN : StartConfirm(t, discard)
    \/ \E t \in BagToSet(tasks), answer \in {"notGit", "noRef", "invalidRef", "files"},
          baseRef \in BaseRefs, git \in StartScenarios :
            /\ sessionsMade < StartSessions
            /\ StartResolve(t, answer, baseRef, git)
    \/ StartRoom /\ ChangeBaseRef
    \/ \E t \in BagToSet(tasks), picked \in BOOLEAN : ChangeBaseRefPicked(t, picked)
    \/ \E t \in BagToSet(tasks) : ChangeBaseRefStart(t)
    \/ StartRoom /\ RefreshFiles
    \/ \E t \in BagToSet(tasks), git \in StartScenarios : RefreshResolved(t, git)
    \/ CancelCommand
    \/ \E target \in TargetPaths : MarkReviewed(target)

SpecStart == Init /\ [][StartNext]_vars

\* ---- SpecSession: the ReviewSession API, called directly -----------------
\* `session` is the session object under test; hist.live counts its comments
\* from the calls made (addComment, removeComment returning true)

ApiRefs == 1..(ApiIds + 1)
ApiPaths == {PathA, PathB, PathZ}
ApiVars ==
    <<now, ticks, ctlSession, provSession, activeCtx, currentFileIndex, cache, fetches,
      summaryPanel, panels, tasks, disk, resolverVars>>

\* the comment objects the documents returned by toReviewData hold on to
RefsOf(doc) == IF doc = None THEN {} ELSE SeqToSet(Get(doc).comments)
DocRefs == RefsOf(hist.doc) \cup RefsOf(hist.firstDoc)

\* a variant of Construct whose session starts with the comments and the
\* reviewed flags of the session before it
ConstructCarriesOver(git) ==
    /\ sessionsMade' = sessionsMade + 1
    /\ LET new == NewSession(sessionsMade + 1, <<"m">>, HeadRef,
                             GetChangedFiles(git), now)
       IN session' = IF session = None THEN Some(new)
                      ELSE Some([new EXCEPT
                             !.comments = Get(session).comments,
                             !.files = [i \in 1..Len(new.files) |->
                                 [file |-> new.files[i].file,
                                  reviewed |-> IsFileReviewed(Get(session),
                                                 new.files[i].file.path)]]])
    /\ heap' = heap
    /\ hist' = [hist EXCEPT !.live = 0, !.doc = None, !.firstDoc = None]
    /\ UNCHANGED <<nextCommentId, ApiVars>>

\* new ReviewSession(baseRef, headRef, files)
Construct(git) ==
    /\ sessionsMade' = sessionsMade + 1
    /\ session' = Some(NewSession(sessionsMade + 1, <<"m">>, HeadRef,
                                  GetChangedFiles(git), now))
    /\ heap' = <<>>
    /\ hist' = [hist EXCEPT !.live = 0, !.doc = None, !.firstDoc = None]
    /\ UNCHANGED <<nextCommentId, ApiVars>>

CallAddComment(file, severity) ==
    /\ session # None
    /\ LET r == AddComment(Get(session), heap, nextCommentId, file, 1, ReplyText,
                           severity, None, None, now)
       IN /\ session' = Some(r.s)
          /\ heap' = r.h
          /\ nextCommentId' = r.counter
          /\ hist' = [hist EXCEPT
                 !.issued = Append(@, [sid |-> r.s.sid, n |-> Get(r.ret)]),
                 !.live = @ + 1]
    /\ UNCHANGED <<sessionsMade, ApiVars>>

CallRemoveComment(n) ==
    /\ session # None
    /\ LET r == RemoveComment(Get(session), n)
       IN /\ session' = Some(r.s)
          /\ heap' = Collect(heap, SeqToSet(r.s.comments) \cup DocRefs)
          /\ hist' = [hist EXCEPT !.live = IF r.ret THEN @ - 1 ELSE @]
    /\ UNCHANGED <<nextCommentId, sessionsMade, ApiVars>>

CallUpdateComment(n, body, severity) ==
    /\ session # None
    /\ heap' = UpdateComment(Get(session), heap, n, body, severity)
    /\ UNCHANGED <<session, nextCommentId, sessionsMade, hist, ApiVars>>

CallToggleResolved(n) ==
    /\ session # None
    /\ heap' = ToggleResolved(Get(session), heap, n).h
    /\ UNCHANGED <<session, nextCommentId, sessionsMade, hist, ApiVars>>

CallMarkFileReviewed(filePath) ==
    /\ session # None
    /\ session' = Some(MarkFileReviewed(Get(session), filePath))
    /\ UNCHANGED <<heap, nextCommentId, sessionsMade, hist, ApiVars>>

CallUnmarkFileReviewed(filePath) ==
    /\ session # None
    /\ session' = Some(UnmarkFileReviewed(Get(session), filePath))
    /\ UNCHANGED <<heap, nextCommentId, sessionsMade, hist, ApiVars>>

CallToggleFileReviewed(filePath) ==
    /\ session # None
    /\ session' = Some(ToggleFileReviewed(Get(session), filePath).s)
    /\ UNCHANGED <<heap, nextCommentId, sessionsMade, hist, ApiVars>>

SessionNext ==
    \/ \E git \in {GitTwoFiles, GitOneFile} :
            sessionsMade < ApiSessions /\ Construct(git)
    \/ \E file \in ApiPaths, severity \in Severities :
            /\ nextCommentId <= ApiIds
            /\ session # None => Len(Get(session).comments) < ApiComments
            /\ CallAddComment(file, severity)
    \/ \E n \in ApiRefs : CallRemoveComment(n)
    \/ \E n \in ApiRefs, severity \in {None} \cup {Some(v) : v \in Severities} :
            CallUpdateComment(n, EditedText, severity)
    \/ \E n \in ApiRefs : CallToggleResolved(n)
    \/ \E filePath \in ApiPaths : CallMarkFileReviewed(filePath)
    \/ \E filePath \in ApiPaths : CallUnmarkFileReviewed(filePath)
    \/ \E filePath \in ApiPaths : CallToggleFileReviewed(filePath)

SpecSession == Init /\ [][SessionNext]_vars

\* ---- SpecSnapshot: toReviewData among the other calls, on a clock ---------
\* hist.doc is the document the last call returned, hist.firstDoc the one the
\* first call on this session returned, hist.docs the number of calls

SnapshotDecisions == {"approve", "request_changes"}
SnapshotSeverities == {"must_fix", "question"}
\* the summary of the first call and of the later ones
SnapshotSummaries == IF hist.docs = 0 THEN {SummaryText} ELSE {<<>>}

\* session.toReviewData(decision, summary)
CallToReviewData(decision, summary) ==
    /\ session # None
    /\ LET doc == ToReviewData(Get(session), heap, decision, summary)
       IN hist' = [hist EXCEPT !.doc = Some(doc),
                               !.firstDoc = IF @ = None THEN Some(doc) ELSE @,
                               !.docs = @ + 1]
    /\ UNCHANGED <<session, heap, nextCommentId, sessionsMade, ApiVars>>

SnapshotNext ==
    \/ ticks < SnapshotTicks /\ Tick
    \/ sessionsMade < SnapshotSessions /\ Construct(GitOneFile)
    \/ \E severity \in SnapshotSeverities :
            /\ nextCommentId <= SnapshotIds
            /\ session # None => Len(Get(session).comments) < SnapshotComments
            /\ CallAddComment(PathB, severity)
    \/ \E n \in 1..SnapshotIds : CallRemoveComment(n)
    \/ \E n \in 1..SnapshotIds, severity \in {None, Some("nitpick")} :
            CallUpdateComment(n, EditedText, severity)
    \/ \E n \in 1..SnapshotIds : CallToggleResolved(n)
    \/ CallMarkFileReviewed(PathB)
    \/ CallUnmarkFileReviewed(PathB)
    \/ CallToggleFileReviewed(PathB)
    \/ \E decision \in SnapshotDecisions, summary \in SnapshotSummaries :
            hist.docs < SnapshotCalls /\ CallToReviewData(decision, summary)

SpecSnapshot == Init /\ [][SnapshotNext]_vars

\* ---- SpecToml: a document is exported and read back ----------------------
\* hist.doc is the document given to saveReview, hist.parsed what a reader
\* of latest.toml finds in it

TomlChars == {"a", "\"", "\\", "\n"}

RECURSIVE StringsUpTo(_)
StringsUpTo(n) ==
    IF n = 0 THEN {<<>>}
    ELSE LET shorter == StringsUpTo(n - 1)
         IN shorter \cup {Append(v, c) : v \in shorter, c \in TomlChars}

TomlBodies == StringsUpTo(TomlLen)
\* endLine absent, equal to line, greater than line; codeContext absent,
\* empty, not empty
TomlRanges ==
    {[endLine |-> None, codeContext |-> None],
     [endLine |-> Some(1), codeContext |-> Some(<<>>)],
     [endLine |-> Some(2), codeContext |-> Some(<<"c", "\"">>)]}
TomlSummaries == {<<>>, <<"s", "\n", "\"">>}

\* session.addComment(file, 1, body, severity, endLine, codeContext)
CallAddCommentAt(body, endLine, codeContext) ==
    /\ session # None
    /\ LET r == AddComment(Get(session), heap, nextCommentId, PathB, 1, body,
                           "must_fix", endLine, codeContext, now)
       IN /\ session' = Some(r.s)
          /\ heap' = r.h
          /\ nextCommentId' = r.counter
          /\ hist' = [hist EXCEPT
                 !.issued = Append(@, [sid |-> r.s.sid, n |-> Get(r.ret)]),
                 !.live = @ + 1]
    /\ UNCHANGED <<sessionsMade, ApiVars>>

\* saveReview(root, session.toReviewData(decision, summary))
CallSaveReview(decision, summary) ==
    /\ session # None
    /\ LET doc == ToReviewData(Get(session), heap, decision, summary)
       IN /\ disk' = SaveReview(disk, doc, heap, "none").disk
          /\ hist' = [hist EXCEPT !.doc = Some(doc)]
    /\ UNCHANGED <<session, heap, nextCommentId, now, ticks, sessionsMade,
                   ctlSession, provSession, activeCtx, currentFileIndex, cache, fetches,
                   summaryPanel, panels, tasks, resolverVars>>

\* a reader parses latest.toml
ReadLatest ==
    /\ disk.latest # None
    /\ hist' = [hist EXCEPT !.parsed = Some(ParseToml(Get(disk.latest)))]
    /\ UNCHANGED <<session, heap, nextCommentId, now, ticks, sessionsMade,
                   ctlSession, provSession, activeCtx, currentFileIndex, cache, fetches,
                   summaryPanel, panels, tasks, disk, resolverVars>>

TomlNext ==
    \/ session = None /\ Construct(GitTwoFiles)
    \/ \E body \in TomlBodies, range \in TomlRanges :
            /\ disk.latest = None
            /\ nextCommentId <= TomlIds
            /\ session # None => Len(Get(session).comments) < TomlComments
            /\ CallAddCommentAt(body, range.endLine, range.codeContext)
    \/ \E n \in 1..TomlIds : disk.latest = None /\ CallRemoveComment(n)
    \/ \E n \in 1..TomlIds :
            disk.latest = None /\ CallUpdateComment(n, EditedText, None)
    \/ \E filePath \in {PathA, PathB} :
            disk.latest = None /\ CallToggleFileReviewed(filePath)
    \/ \E summary \in TomlSummaries :
            disk.latest = None /\ CallSaveReview("approve", summary)
    \/ hist.parsed = None /\ ReadLatest

SpecToml == Init /\ [][TomlNext]_vars

\* ---- SpecResolver: getChangedFiles, one git command at a time ------------
\* rpc is the command getChangedFiles waits for; rFiles and rSeen are its
\* locals `files` and `seen`; hist.offered counts the lines with a path that
\* the commands have printed

PaddedA == <<" ", "a", " ">>
Code(c) == <<c>>

\* lines of `git diff --name-status`, split at the tabs
StatusLines ==
    { <<Code("M"), PathA>>, <<Code("A"), PathB>>, <<Code("D"), PaddedA>>,
      <<<<"R", "9">>, PathA, PathB>>, <<<<"C", "7">>, PathB, PathA>>,
      <<Code("T"), PathZ>>, <<Code("M")>>, <<Code("M"), <<" ">>>> }

\* lines of `git ls-files --others`
UntrackedLines == {PathA, PathB, PaddedA, PathZ, <<>>}

Summaries ==
    { <<>>,
      << [file |-> PathA, insertions |-> Some(3), deletions |-> Some(1)] >>,
      << [file |-> PathB, insertions |-> None, deletions |-> Some(2)] >> }

SeqsUpTo(S, n) == UNION {[1..k -> S] : k \in 0..n}

StatusOutputs ==
    {Throws} \cup
    {[threw |-> FALSE, lines |-> l, summary |-> m] :
        l \in SeqsUpTo(StatusLines, MaxLines), m \in Summaries}

UntrackedOutputs ==
    {Throws} \cup
    {[threw |-> FALSE, lines |-> l, summary |-> <<>>] :
        l \in SeqsUpTo(UntrackedLines, MaxLines)}

WithPath(out) ==
    IF out.threw THEN 0
    ELSE Cardinality({i \in 1..Len(out.lines) :
            Len(out.lines[i]) >= 2 /\ LinePath(out.lines[i]) # <<>>})

WithRawPath(out) ==
    IF out.threw THEN 0
    ELSE Cardinality({i \in 1..Len(out.lines) : Trim(out.lines[i]) # <<>>})

\* what one command reports, line by line: the path a line names (none: the
\* empty path) and the status that line alone gives it
StatusReports(out) ==
    IF out.threw THEN <<>>
    ELSE [i \in 1..Len(out.lines) |->
            IF Len(out.lines[i]) >= 2
            THEN [path |-> LinePath(out.lines[i]),
                  status |-> MapGitStatus(CharAt0(out.lines[i][1])),
                  code |-> CharAt0(out.lines[i][1])]
            ELSE [path |-> <<>>, status |-> "none", code |-> "none"]]

UntrackedReports(out) ==
    IF out.threw THEN <<>>
    ELSE [i \in 1..Len(out.lines) |->
            [path |-> Trim(out.lines[i]), status |-> "added", code |-> "untracked"]]

\* hist.first: for every path reported so far, its first report (the status
\* it gave the path, the status letter it carried); hist.conflict: a later pass reported a known path with another
\* status
FirstSeen(known, reports) ==
    LET fresh == {reports[i].path : i \in 1..Len(reports)} \ ({<<>>} \cup DOMAIN known)
        firstAt(p) == CHOOSE i \in 1..Len(reports) :
                        /\ reports[i].path = p
                        /\ \A k \in 1..(i - 1) : reports[k].path # p
    IN [p \in fresh |-> [status |-> reports[firstAt(p)].status,
                          code |-> reports[firstAt(p)].code]] @@ known

Conflict(known, reports) ==
    \E i \in 1..Len(reports) :
        /\ reports[i].path \in DOMAIN known
        /\ reports[i].status # known[reports[i].path].status

ResolverRest ==
    <<session, heap, nextCommentId, now, ticks, sessionsMade, ctlSession,
      provSession, activeCtx, currentFileIndex, cache, fetches, summaryPanel, panels, tasks,
      disk>>

\* getChangedFiles is called
ResolveCalled ==
    /\ rpc = "idle"
    /\ rpc' = "committed"
    /\ rFiles' = <<>>
    /\ rSeen' = {}
    /\ hist' = [hist EXCEPT !.offered = 0, !.first = <<>>, !.conflict = FALSE]
    /\ UNCHANGED ResolverRest

ResolverStep(at, to, acc, offered, reports) ==
    /\ rpc = at
    /\ rpc' = to
    /\ rFiles' = acc.files
    /\ rSeen' = acc.seen
    /\ hist' = [hist EXCEPT !.offered = @ + offered,
                             !.first = FirstSeen(@, reports),
                             !.conflict = @ \/ Conflict(hist.first, reports)]
    /\ UNCHANGED ResolverRest

\* pass 1: diff base...head
CommittedAnswered(out) ==
    ResolverStep("committed", "staged",
                 CommittedPass([files |-> rFiles, seen |-> rSeen], out), WithPath(out),
                 StatusReports(out))

\* pass 2: diff --cached
StagedAnswered(out) ==
    ResolverStep("staged", "unstaged",
                 WorkingPass([files |-> rFiles, seen |-> rSeen], out), WithPath(out),
                 StatusReports(out))

\* pass 3: diff
UnstagedAnswered(out) ==
    ResolverStep("unstaged", "untracked",
                 WorkingPass([files |-> rFiles, seen |-> rSeen], out), WithPath(out),
                 StatusReports(out))

\* pass 4: ls-files --others --exclude-standard
UntrackedAnswered(out) ==
    ResolverStep("untracked", "done",
                 UntrackedPass([files |-> rFiles, seen |-> rSeen], out), WithRawPath(out),
                 UntrackedReports(out))

\* `return files`
ResolveReturned ==
    /\ rpc = "done"
    /\ rpc' = "idle"
    /\ UNCHANGED <<rFiles, rSeen, hist, ResolverRest>>

ResolverNext ==
    \/ ResolveCalled
    \/ \E out \in StatusOutputs : CommittedAnswered(out)
    \/ \E out \in StatusOutputs : StagedAnswered(out)
    \/ \E out \in StatusOutputs : UnstagedAnswered(out)
    \/ \E out \in UntrackedOutputs : UntrackedAnswered(out)
    \/ ResolveReturned

SpecResolver == Init /\ [][ResolverNext]_vars

\* ---- SpecCommittedOnly: getChangedFiles of git/gitService.ts ------------
\* rpc = "threw": the call was rejected

CommittedOnlyCalled ==
    /\ rpc = "idle"
    /\ rpc' = "diff"
    /\ rFiles' = <<>>
    /\ UNCHANGED <<rSeen, hist, ResolverRest>>

CommittedOnlyAnswered(out) ==
    /\ rpc = "diff"
    /\ LET r == GetChangedFilesCommittedOnly(out)
       IN /\ rpc' = IF r.threw THEN "threw" ELSE "done"
          /\ rFiles' = r.files
    /\ UNCHANGED <<rSeen, hist, ResolverRest>>

CommittedOnlyReturned ==
    /\ rpc \in {"done", "threw"}
    /\ rpc' = "idle"
    /\ UNCHANGED <<rFiles, rSeen, hist, ResolverRest>>

CommittedOnlyNext ==
    \/ CommittedOnlyCalled
    \/ \E out \in StatusOutputs : CommittedOnlyAnswered(out)
    \/ CommittedOnlyReturned

SpecCommittedOnly == Init /\ [][CommittedOnlyNext]_vars

----------------------------------------------------------------------------
(* Claims settled on the review lifecycle *)

SessionStats == GetStats(Get(session), heap)

\* C1: a request to add a comment whose file is not in the session's change
\* set is rejected: no comment is stored and getStats() is the same after the
\* request as before it.
C1_OutsideCommentRejected ==
    [][\A t \in BagToSet(tasks), v \in PickedSeverities, codeContext \in CodeContexts :
         ( /\ Active
           /\ t.op = "createComment"
           /\ t.path # None
           /\ ~HasFile(Get(session), Get(t.path))
           /\ CreateCommentResumed(t, Some(v), codeContext) )
         => /\ session' # None
            /\ Get(session').comments = Get(session).comments
            /\ GetStats(Get(session'), heap') = GetStats(Get(session), heap)]_vars

\* C2: once saveReview has returned, handleSubmit always ends with the
\* orchestrator Idle, and what it does after the export never alters the
\* persisted documents.
C2_SubmitEndsIdle ==
    [][\A t \in BagToSet(tasks) :
         (t.op = "handleSubmit" /\ tasks' = Finish(t))
         => (session' = None /\ disk' = disk)]_vars

StartStep ==
    \/ StartReview
    \/ \E t \in BagToSet(tasks), discard \in BOOLEAN : StartConfirm(t, discard)
    \/ \E t \in BagToSet(tasks), answer \in {"notGit", "noRef", "invalidRef", "files"},
          baseRef \in BaseRefs, git \in GitScenarios :
            StartResolve(t, answer, baseRef, git)
    \/ ChangeBaseRef
    \/ \E t \in BagToSet(tasks), picked \in BOOLEAN : ChangeBaseRefPicked(t, picked)
    \/ \E t \in BagToSet(tasks) : ChangeBaseRefStart(t)

\* C4: startReview and changeBaseRef discard an Active session only in the
\* step in which the reviewer answered 'Discard & Start New'.
C4_DiscardOnlyConfirmed ==
    [][(Active /\ session' # session /\ StartStep)
         => \E t \in BagToSet(tasks) : StartConfirm(t, TRUE)]_vars

\* a submit or a session mutation arriving at the manager or the comment
\* controller
MutationStep ==
    \/ SubmitReview
    \/ \E own \in BOOLEAN, decision \in PanelDecisions, autoFix \in BOOLEAN,
          fault \in SaveFaults :
            HandleSubmit(own, decision, SummaryText, autoFix, fault)
    \/ \E path \in ThreadPaths : CreateComment(path)
    \/ \E n \in CommentIds : SaveComment(n, EditedText)
    \/ \E n \in CommentIds : DeleteComment(n)
    \/ \E n \in CommentIds : ToggleResolvedComment(n)
    \/ \E target \in TargetPaths : MarkReviewed(target)

\* C5: a submit or a session mutation invoked while Idle changes nothing: no
\* session, no document written, no comment id issued, nothing left pending.
C5_IdleRejected ==
    [][(~Active /\ MutationStep)
         => /\ session' = None
            /\ disk' = disk
            /\ UNCHANGED <<heap, nextCommentId, sessionsMade, ctlSession,
                           provSession, activeCtx, tasks>>]_vars

\* Idle after a session, with a summary panel of that session still open: its
\* 'submit' reaches handleSubmit with no session
C5_Witness ==
    /\ ~Active
    /\ sessionsMade > 0
    /\ panels > 0
    /\ ENABLED HandleSubmit(FALSE, "request_changes", SummaryText, TRUE, "none")

----------------------------------------------------------------------------
(* Claims settled on the export pipeline *)

LastSaved == hist.saved[Len(hist.saved)]

\* C6: after successful submissions latest.toml holds the serialization of
\* the most recently submitted document, and (no export having failed) the
\* same content as that submission's timestamped file.
C6_LatestIsLastSubmission ==
    Len(hist.saved) > 0 =>
        /\ disk.latest = Some(LastSaved.content)
        /\ hist.failures = 0 =>
            /\ LastSaved.id \in DOMAIN disk.files
            /\ disk.files[LastSaved.id] = LastSaved.content

C6_Witness ==
    /\ Len(hist.saved) = 2
    /\ hist.failures = 0
    /\ hist.saved[1].sid # hist.saved[2].sid
    /\ hist.saved[1].content # hist.saved[2].content
    /\ disk.latest = Some(hist.saved[2].content)

\* the i-th successful submission is the last one of its session
LastOfSession(i) ==
    \A k \in 1..Len(hist.saved) :
        hist.saved[k].sid = hist.saved[i].sid => k <= i

\* C7: two successful submissions from two different sessions have different
\* document ids, and the earlier session's timestamped file still holds that
\* session's document after the later submission.
C7_DistinctDocuments ==
    \A i, j \in 1..Len(hist.saved) :
        (i < j /\ hist.saved[i].sid # hist.saved[j].sid /\ LastOfSession(i)) =>
            /\ hist.saved[i].id # hist.saved[j].id
            /\ disk.files[hist.saved[i].id] = hist.saved[i].content

----------------------------------------------------------------------------
(* Claims settled on the ReviewSession API *)

\* C8: the ids addComment returns are strictly increasing in order of
\* creation and pairwise different, over removals and successive sessions.
C8_IdsNeverReused ==
    \A i, j \in 1..Len(hist.issued) :
        i < j =>
            /\ hist.issued[i].n < hist.issued[j].n
            /\ CommentId(hist.issued[i].n) # CommentId(hist.issued[j].n)

\* ids issued in a discarded session, then in the present session an id whose
\* comment was removed, then a later id
C8_Witness ==
    /\ session # None
    /\ \E i, j, k \in 1..Len(hist.issued) :
        /\ i < j /\ j < k
        /\ hist.issued[i].sid # Get(session).sid
        /\ hist.issued[j].sid = Get(session).sid
        /\ hist.issued[k].sid = Get(session).sid
        /\ ~HasComment(Get(session), hist.issued[j].n)
        /\ HasComment(Get(session), hist.issued[k].n)

\* C9: getStats().totalComments is the number of comments present in the
\* session (those added and not removed) and the sum of the four severity
\* counts, after any addComment, removeComment and updateComment calls.
C9_StatsCountComments ==
    session # None =>
        LET stats == GetStats(Get(session), heap)
        IN /\ stats.totalComments = hist.live
           /\ stats.totalComments =
                stats.mustFix + stats.suggestions + stats.nitpicks + stats.questions

\* a comment was removed, and one present was edited and is a question
C9_Witness ==
    /\ session # None
    /\ hist.live >= 1
    /\ Cardinality({i \in 1..Len(hist.issued) :
                      hist.issued[i].sid = Get(session).sid}) > hist.live
    /\ \E n \in SeqToSet(Get(session).comments) :
        heap[n].body = EditedText /\ heap[n].severity = "question"

----------------------------------------------------------------------------
(* Claims settled on the change-set resolver *)

\* C10: the list getChangedFiles builds and returns never holds two entries
\* with the same path, whatever the four git commands print.
C10_NoDuplicatePaths ==
    NoDuplicates(Paths(rFiles))

\* a returned list of two files, built from more lines than it has entries
C10_Witness ==
    /\ rpc = "done"
    /\ Len(rFiles) >= 2
    /\ hist.offered > Len(rFiles)

\* C11: every path reported by the passes appears exactly once in the list,
\* with the status its first report (committed, staged, unstaged, untracked,
\* in that order) gave it; a later report never changes it.
C11_FirstStatusWins ==
    /\ \A p \in DOMAIN hist.first :
         Cardinality({i \in 1..Len(rFiles) : rFiles[i].path = p}) = 1
    /\ \A i \in 1..Len(rFiles) :
         /\ rFiles[i].path \in DOMAIN hist.first
         /\ rFiles[i].status = hist.first[rFiles[i].path].status

\* a returned list with a path that a later pass reported with another status
C11_Witness ==
    /\ rpc = "done"
    /\ hist.conflict
    /\ Len(rFiles) >= 2

\* C12: getChangedFiles never throws, whichever command fails.
C12_NeverThrows ==
    rpc # "threw"

\* the line counts a working-tree diff (`out`, with its diff summary) has for
\* a path it reports; zero when it does not report the path
ReportedCounts(out, p) ==
    LET reports == StatusReports(out)
        c == IF out.threw THEN None ELSE StatsGet(out.summary, p)
    IN IF (\E i \in 1..Len(reports) : reports[i].path = p) /\ c # None
       THEN Get(c) ELSE [additions |-> 0, deletions |-> 0]

\* C13: when the staged or the unstaged pass reports a path already listed,
\* the path's additions and deletions grow by that diff's line counts.
C13_CountsAccumulate ==
    [][\A out \in StatusOutputs :
         (StagedAnswered(out) \/ UnstagedAnswered(out)) =>
            \A i \in 1..Len(rFiles) :
                LET c == ReportedCounts(out, rFiles[i].path)
                IN /\ rFiles'[i].additions = rFiles[i].additions + c.additions
                   /\ rFiles'[i].deletions = rFiles[i].deletions + c.deletions]_vars

\* the status letter git printed for the i-th file of the list ("untracked":
\* the file came from ls-files --others, which prints no letter)
LetterOf(i) == hist.first[rFiles[i].path].code

\* C14: a file's status follows from its status letter by A -> added,
\* D -> deleted, R -> renamed, M -> modified, and any other letter -> added.
C14_UnmatchedIsAdded ==
    \A i \in 1..Len(rFiles) :
        rFiles[i].status =
            CASE LetterOf(i) = "A" -> "added"
              [] LetterOf(i) = "D" -> "deleted"
              [] LetterOf(i) = "R" -> "renamed"
              [] LetterOf(i) = "M" -> "modified"
              [] OTHER -> "added"

\* C14, amended: A -> added, D -> deleted, R -> renamed, M and every other
\* letter -> modified; a file of the untracked pass, which has no letter, is
\* added.
C14_UnmatchedIsModified ==
    \A i \in 1..Len(rFiles) :
        rFiles[i].status =
            CASE LetterOf(i) = "A" -> "added"
              [] LetterOf(i) = "D" -> "deleted"
              [] LetterOf(i) = "R" -> "renamed"
              [] LetterOf(i) = "untracked" -> "added"
              [] OTHER -> "modified"

\* a returned list with a file whose letter is none of A, D, R, M, and an
\* untracked file
C14_Witness ==
    /\ rpc = "done"
    /\ \E i \in 1..Len(rFiles) : LetterOf(i) \in {"C", "T"}
    /\ \E i \in 1..Len(rFiles) : LetterOf(i) = "untracked"

----------------------------------------------------------------------------
(* Claims settled on the hand-off and on starting a review *)

\* handleSubmit has saved the document and waits for the chat command
HandOffPending ==
    \E t \in BagToSet(tasks) : t.op = "handleSubmit" /\ t.pc = "chatOpen"

\* a handleSubmit invocation has not returned yet
SubmitRunning ==
    \E t \in BagToSet(tasks) : t.op = "handleSubmit"

\* C15: a submit with auto-fix that has persisted its document completes
\* whether or not the hand-off, or a dialog shown for it, ever completes.
\* (Only that it completes is stated here, not the state it completes in.)
C15_SubmitEndsWithoutHandOff ==
    HandOffPending ~> ~SubmitRunning

\* startReview returns with an empty list from the resolver
StartFoundNothing ==
    \E t \in BagToSet(tasks), baseRef \in BaseRefs, git \in StartScenarios :
        /\ Len(GetChangedFiles(git)) = 0
        /\ StartResolve(t, "files", baseRef, git)

\* C16: when the resolver returns zero changed files, start creates no
\* ReviewSession, the orchestrator is Idle afterwards, and the outcome is
\* reported as an information message, not as an error.
C16_NoFilesNoSession ==
    [][StartFoundNothing =>
         /\ sessionsMade' = sessionsMade
         /\ session' = None
         /\ StartNotice("files", <<>>) = "information"]_vars

(* Claims settled on the document toReviewData returns *)

\* what a reader of a returned document sees: the comment objects are
\* reached through the references the document holds
DocumentView(doc, h) ==
    [stats |-> doc.stats,
     reviewedFiles |-> doc.reviewedFiles,
     comments |-> [i \in 1..Len(doc.comments) |-> h[doc.comments[i]]]]

\* C17: a document returned by toReviewData is immutable: no later operation
\* on the session changes the comments, reviewedFiles or stats of a document
\* that was already returned.
C17_DocumentImmutable ==
    [][(hist.doc # None /\ hist'.doc = hist.doc) =>
         DocumentView(Get(hist.doc), heap') = DocumentView(Get(hist.doc), heap)]_vars

\* a call of toReviewData on the session
ToReviewDataStep ==
    \E decision \in SnapshotDecisions, summary \in SnapshotSummaries :
        CallToReviewData(decision, summary)

\* C18: toReviewData is a pure snapshot: it changes nothing in the session
\* (comments, reviewed flags, refs, startedAt), and any two calls on the same
\* session return the same document id, whatever decision and summary are
\* passed and whatever mutations happen between the calls.
C18_PureSnapshotSameId ==
    [][ToReviewDataStep =>
         /\ UNCHANGED <<session, heap, nextCommentId>>
         /\ Get(hist'.doc).id = Get(hist'.firstDoc).id
         /\ Get(hist'.doc).id = FormatDateId(Get(session).startedAt)]_vars

\* two calls a second or more after the session started, with another
\* decision and summary, the comments and the reviewed flags changed between
C18_Witness ==
    /\ hist.docs = 2
    /\ session # None
    /\ now >= Get(session).startedAt + 1000
    /\ Get(hist.doc).decision # Get(hist.firstDoc).decision
    /\ Get(hist.doc).summary # Get(hist.firstDoc).summary
    /\ Get(hist.doc).stats.totalComments # Get(hist.firstDoc).stats.totalComments
    /\ Get(hist.doc).stats.filesReviewed # Get(hist.firstDoc).stats.filesReviewed

(* Claims settled on the files of a session *)

\* a step that leaves the manager with the session object it had
SameSession ==
    /\ session # None
    /\ session' # None
    /\ Get(session').sid = Get(session).sid

ToggleTwice(s, p) ==
    LET once == ToggleFileReviewed(s, p)
        twice == ToggleFileReviewed(once.s, p)
    IN [first |-> once.ret, between |-> once.s, second |-> twice.ret,
        after |-> twice.s]

\* C20: for every path p in the session, toggleFileReviewed(p) twice in
\* succession restores p's reviewed flag and getStats().filesReviewed; the
\* first call returns the negation of the original flag, the second the
\* original flag.
C20_ToggleTwiceRestores ==
    session # None =>
        \A p \in ApiPaths :
            HasFile(Get(session), p) =>
                LET s == Get(session)
                    r == ToggleTwice(s, p)
                IN /\ IsFileReviewed(r.after, p) = IsFileReviewed(s, p)
                   /\ GetStats(r.after, heap).filesReviewed
                        = GetStats(s, heap).filesReviewed
                   /\ r.first = ~IsFileReviewed(s, p)
                   /\ r.second = IsFileReviewed(s, p)
                   /\ IsFileReviewed(r.between, p) = ~IsFileReviewed(s, p)
                   /\ r.after = s

\* a session with a reviewed file and a file not reviewed: the two calls
\* take the first down and up again, the second up and down again
C20_Witness ==
    /\ session # None
    /\ \E p, q \in ApiPaths :
          /\ HasFile(Get(session), p) /\ HasFile(Get(session), q)
          /\ IsFileReviewed(Get(session), p)
          /\ ~IsFileReviewed(Get(session), q)
          /\ GetStats(ToggleTwice(Get(session), p).between, heap).filesReviewed
               = GetStats(Get(session), heap).filesReviewed - 1
          /\ GetStats(ToggleTwice(Get(session), q).between, heap).filesReviewed
               = GetStats(Get(session), heap).filesReviewed + 1

----------------------------------------------------------------------------
(* Claims settled on the not-found cases of the session *)

\* the comment ids of session s, in order, without n
Without(s, n) == SelectSeq(s.comments, LAMBDA r : r # n)

\* removeComment(n) on the session as it stands, for every id
RemoveCommentAnswers ==
    session # None =>
        \A n \in ApiRefs :
            LET s == Get(session)
                r == RemoveComment(s, n)
                h == Collect(heap, SeqToSet(r.s.comments))
            IN IF HasComment(s, n)
               THEN /\ r.ret
                    /\ r.s.comments = Without(s, n)
                    /\ Len(r.s.comments) = Len(s.comments) - 1
                    /\ GetComments(r.s, h)
                         = GetComments([s EXCEPT !.comments = Without(s, n)], heap)
                    /\ ~RemoveComment(r.s, n).ret
               ELSE /\ ~r.ret
                    /\ r.s = s
                    /\ h = heap
                    /\ GetStats(r.s, h) = GetStats(s, heap)

\* an id of the session that is not present stays absent
RemovedStaysRemoved ==
    \A n \in ApiRefs :
        (/\ session # None /\ session' # None
         /\ Get(session').sid = Get(session).sid
         /\ n < nextCommentId
         /\ ~HasComment(Get(session), n)) => ~HasComment(Get(session'), n)

\* C21: removeComment with an id that is not present (never issued, or
\* already removed) returns false and leaves the comments and getStats()
\* unchanged; with a present id it returns true and removes exactly that
\* comment, permanently: a second call with the same id returns false and no
\* later call brings the id back.
C21_RemoveComment ==
    []RemoveCommentAnswers /\ [][RemovedStaysRemoved]_vars

\* removeComment has returned true for an id of the session, a comment
\* added before it and one added after it are present, and an id is left
\* that was never issued
C21_Witness ==
    /\ session # None
    /\ \E i, j, k \in 1..Len(hist.issued) :
        /\ i < j /\ j < k
        /\ \A m \in {i, j, k} : hist.issued[m].sid = Get(session).sid
        /\ HasComment(Get(session), hist.issued[i].n)
        /\ ~HasComment(Get(session), hist.issued[j].n)
        /\ HasComment(Get(session), hist.issued[k].n)
    /\ \E n \in ApiRefs : n >= nextCommentId

\* C22: updateComment and toggleResolved with an unknown comment id, and
\* toggleFileReviewed, markFileReviewed and unmarkFileReviewed with a path
\* that is not in the session, leave the whole session state unchanged; the
\* two toggles return false in that case.
C22_NotFoundIsNoOp ==
    session # None =>
        LET s == Get(session)
        IN /\ \A n \in ApiRefs :
                ~HasComment(s, n) =>
                  /\ \A severity \in {None} \cup {Some(v) : v \in Severities} :
                        UpdateComment(s, heap, n, EditedText, severity) = heap
                  /\ ToggleResolved(s, heap, n) = [h |-> heap, ret |-> FALSE]
           /\ \A filePath \in ApiPaths :
                ~HasFile(s, filePath) =>
                  /\ MarkFileReviewed(s, filePath) = s
                  /\ UnmarkFileReviewed(s, filePath) = s
                  /\ ToggleFileReviewed(s, filePath) = [s |-> s, ret |-> FALSE]

\* a session that has a resolved comment and a reviewed file, with an id that
\* was removed, an id never issued and two paths it does not have
C22_Witness ==
    /\ session # None
    /\ \E n \in SeqToSet(Get(session).comments) : heap[n].resolved
    /\ CountReviewed(Get(session).files) = 1
    /\ \E n \in ApiRefs : n < nextCommentId /\ ~HasComment(Get(session), n)
    /\ \E n \in ApiRefs : n >= nextCommentId
    /\ Cardinality({p \in ApiPaths : ~HasFile(Get(session), p)}) = 2

----------------------------------------------------------------------------
(* Claims settled on the exported document *)

\* the fields of the comments of a document that the format documents
DocumentedComments(doc, h) ==
    [i \in 1..Len(doc.comments) |->
        LET c == h[doc.comments[i]]
        IN [file |-> Some(c.file), line |-> Some(c.line), endLine |-> c.endLine,
            severity |-> Some(Text(c.severity)), body |-> Some(c.body),
            codeContext |-> c.codeContext, resolved |-> Some(c.resolved),
            timestamp |-> Some(c.timestamp)]]

DocumentedFiles(doc) ==
    [i \in 1..Len(doc.reviewedFiles) |->
        LET f == doc.reviewedFiles[i]
        IN [path |-> Some(f.path), status |-> Some(Text(f.status)),
            reviewed |-> Some(f.reviewed)]]

\* C23: the exported document round-trips losslessly: parsing
\* serializeToToml(document) yields the same comments and reviewedFiles,
\* field for field and in the same order, for bodies, summaries and code
\* contexts with double quotes, backslashes, newlines and the empty string,
\* and endLine absent, equal to line or greater than line.
C23_RoundTrip ==
    hist.parsed # None =>
        /\ Get(hist.parsed).comments = DocumentedComments(Get(hist.doc), heap)
        /\ Get(hist.parsed).reviewedFiles = DocumentedFiles(Get(hist.doc))

----------------------------------------------------------------------------
(* Claims settled on submit and cancel *)

\* C24: a session is exported at most once: after a submit of a session has
\* started exporting, a second submit of the same session, issued while the
\* first is still completing or after it, does not write the document again.
C24_ExportedAtMostOnce ==
    \A i, j \in 1..Len(hist.saved) :
        i # j => hist.saved[i].sid # hist.saved[j].sid

\* the number of submits suspended in the chat command of the hand-off
HandOffs(bag) ==
    LET t == Task("handleSubmit", "chatOpen", FALSE, None)
    IN IF t \in BagToSet(bag) THEN CopiesIn(t, bag) ELSE 0

\* the step in which a submit calls the chat command
HandOffAttempted == HandOffs(tasks') > HandOffs(tasks)

\* C25: the hand-off of a submit with auto-fix is attempted only after both
\* the timestamped document and the 'latest' file have been written with the
\* content of the document being submitted; never when the export failed.
C25_HandOffAfterExport ==
    [][HandOffAttempted =>
         /\ hist'.failures = hist.failures
         /\ Len(hist'.saved) = Len(hist.saved) + 1
         /\ LET submitted == hist'.saved[Len(hist'.saved)]
            IN /\ session # None
               /\ submitted.sid = Get(session).sid
               /\ submitted.id \in DOMAIN disk'.files
               /\ disk'.files[submitted.id] = submitted.content
               /\ disk'.latest = Some(submitted.content)]_vars

\* the hand-off of a second submit is pending; the document it wrote differs
\* from the one written before
C25_Witness ==
    /\ HandOffs(tasks) >= 1
    /\ Len(hist.saved) = 2
    /\ hist.saved[1].content # hist.saved[2].content
    /\ disk.latest = Some(hist.saved[2].content)

\* C26: cancel in Active discards the session without exporting: afterwards
\* the orchestrator is Idle, and the persisted document files and the content
\* of the 'latest' file are exactly what they were before the cancel.
C26_CancelExportsNothing ==
    [][(Active /\ CancelCommand) =>
         /\ session' = None
         /\ disk'.files = disk.files
         /\ disk'.latest = disk.latest]_vars

\* a cancel has discarded a session whose submit had written a document and
\* was still suspended; the document and latest.toml are on disk
C26_Witness ==
    /\ hist.cancelled
    /\ session = None
    /\ disk.latest # None
    /\ DOMAIN disk.files # {}
    /\ SubmitRunning

----------------------------------------------------------------------------
(* Claims settled on the entries of the change set *)

\* C27: every ChangedFile of the resolver's result has an oldPath only if its
\* status is renamed, for every status letter a three-field name-status line
\* can carry (copies included).
C27_OldPathOnlyRenamed ==
    \A i \in 1..Len(rFiles) :
        rFiles[i].oldPath # None => rFiles[i].status = "renamed"

----------------------------------------------------------------------------
(* Claims settled on the preconditions of a start *)

\* startReview returns because isGitRepo answered false
StartFoundNoRepository ==
    \E t \in BagToSet(tasks), baseRef \in BaseRefs, git \in StartScenarios :
        StartResolve(t, "notGit", baseRef, git)

----------------------------------------------------------------------------
(* Claims settled on the order of the exported lists *)

\* the comments of session s that are present, in the order they were added
PresentInOrder(s) ==
    SelectSeq([i \in 1..Len(hist.issued) |-> hist.issued[i].n],
              LAMBDA n : HasComment(s, n))

\* the key/value lines serializeToToml writes for one comment
CommentTable(c) == TakeTable(Tail(CommentLines(c)))

\* C29: in the exported document the comments appear in session insertion
\* order (the order in which the still-present comments were added) and the
\* reviewedFiles in the session's file order (the order of the change set at
\* session start, one block per changed file); removing or editing comments
\* and toggling reviewed flags never reorders either list.
C29_ExportedInOrder ==
    (hist.parsed # None /\ session # None) =>
        LET s == Get(session)
            present == PresentInOrder(s)
            tables == Tables(Get(disk.latest), "[[comments]]")
            files == Get(hist.parsed).reviewedFiles
            changeSet == GetChangedFiles(GitTwoFiles)
        IN /\ Len(tables) = Len(present)
           /\ \A i \in 1..Len(tables) : tables[i] = CommentTable(heap[present[i]])
           /\ Len(files) = Len(changeSet)
           /\ \A i \in 1..Len(files) :
                /\ files[i].path = Some(changeSet[i].path)
                /\ files[i].reviewed = Some(IsFileReviewed(s, changeSet[i].path))

\* the document read back has two comments that differ, the first of them
\* edited after the second was added and after an earlier comment was
\* removed, and the second file of the change set is the reviewed one
C29_Witness ==
    /\ hist.parsed # None
    /\ session # None
    /\ Len(hist.issued) = 3
    /\ Get(session).comments = <<2, 3>>
    /\ heap[2].body = EditedText
    /\ heap[3].body # EditedText
    /\ IsFileReviewed(Get(session), GetChangedFiles(GitTwoFiles)[2].path)
    /\ ~IsFileReviewed(Get(session), GetChangedFiles(GitTwoFiles)[1].path)

----------------------------------------------------------------------------
(* Claims settled on the commit picked at start *)

\* C30: when the reviewer picks a commit at start, the session's change set
\* consists of the changes introduced by that commit (as the README states),
\* for every position of the picked commit in the history.
C30_PickedCommitOnly ==
    [][\A t \in BagToSet(tasks), history \in Histories, k \in 1..PickCommits :
         StartPicked(t, history, k) =>
            /\ session' # None
            /\ SessionFiles(Get(session'))
                 = GetChangedFiles(GitAnswer(history, k - 1, k))]_vars

\* picking HEAD itself shows exactly the changes of that commit
PickedHeadOnly ==
    [][\A t \in BagToSet(tasks), history \in Histories :
         StartPicked(t, history, PickCommits) =>
            /\ session' # None
            /\ SessionFiles(Get(session'))
                 = GetChangedFiles(GitAnswer(history, PickCommits - 1, PickCommits))]_vars

----------------------------------------------------------------------------
(* Claims settled on handlers that overlap start, cancel and submit *)

\* C31: no component uses a session reference across a suspension: a
\* comment-creation request that suspends (waiting for the severity pick)
\* while the session it began under is cancelled or replaced never adds its
\* comment to a different session and never fails with an error; a comment is
\* only ever added to the session that was active when its request began.
C31_CommentGoesToItsSession ==
    [][\A t \in BagToSet(tasks), v \in PickedSeverities, codeContext \in CodeContexts :
         ( /\ t.op = "createComment"
           /\ t.path # None
           /\ CreateCommentResumed(t, Some(v), codeContext) )
         => /\ ctlSession # None
            /\ Len(hist'.issued) = Len(hist.issued) + 1
            /\ Some(hist'.issued[Len(hist'.issued)].sid) = hist.began]_vars

\* C32: a submit discards only the session it exported: if, while a submit is
\* suspended after exporting (awaiting the hand-off or the confirmation
\* dialog), the session is cancelled and a new session is started, the
\* completion of that submit does not discard the new session or its comments.
C32_SubmitDiscardsOnlyExported ==
    [][\A t \in BagToSet(tasks) :
         ( /\ t.op = "handleSubmit"
           /\ tasks' = Finish(t)
           /\ Active
           /\ session' = None )
         => \E i \in 1..Len(hist.saved) : hist.saved[i].sid = Get(session).sid]_vars

\* C33: overlapping start invocations cannot silently replace a session: if a
\* second startReview begins while a first startReview is still suspended
\* (both having observed Idle), the session constructed by one of them is
\* never overwritten by the other without a discard confirmation, and
\* comments added to the first constructed session are not lost.
C33_StartNeverOverwrites ==
    [][\A t \in BagToSet(tasks), git \in {GitOneFile, GitTwoFiles} :
         (Active /\ StartResolve(t, "files", <<"m">>, git))
         => /\ session' = session
            /\ heap' = heap
            /\ ctlSession' = ctlSession]_vars

\* C34: after every completed orchestrator operation (start, cancel, submit,
\* changeBaseRef), the session held by the comment controller and by the
\* changed-files provider is the same as the orchestrator's current session
\* (none when Idle), and the 'redline.active' context flag is true exactly
\* when the orchestrator holds a session.
C34_CollaboratorsFollow ==
    /\ ctlSession = (IF Active THEN Some(Get(session).sid) ELSE None)
    /\ provSession = ctlSession
    /\ activeCtx = Active

\* a second session is held after the first was submitted and closed
C34_Witness ==
    /\ Active
    /\ Get(session).sid = 2
    /\ hist.saves = 1
    /\ activeCtx

\* the comments of a document exported now were all added to the session
\* held now, and are as many as were added to it and not removed since
ExportedOwnComments ==
    session # None =>
        \A decision \in Decisions :
            LET doc == ToReviewData(Get(session), heap, decision, SummaryText)
            IN /\ \A k \in 1..Len(doc.comments) :
                    \E i \in 1..Len(hist.issued) :
                        hist.issued[i] = [sid |-> Get(session).sid,
                                          n |-> doc.comments[k]]
               /\ NoDuplicates(doc.comments)
               /\ Len(doc.comments) = hist.live
               /\ doc.stats.totalComments = hist.live

\* a session just constructed has no comment and no reviewed file
ConstructedEmpty ==
    \A git \in {GitTwoFiles, GitOneFile} :
        Construct(git) =>
            /\ Get(session').comments = <<>>
            /\ \A i \in 1..Len(Get(session').files) :
                    ~Get(session').files[i].reviewed
            /\ GetStats(Get(session'), heap').totalComments = 0
            /\ GetStats(Get(session'), heap').filesReviewed = 0

\* C35: sessions are isolated: a newly started session has zero comments and
\* every file unreviewed, whatever the previous session contained, and a
\* document exported from a session contains only comments that were added
\* to that same session and not removed from it.
C35_SessionsIsolated ==
    []ExportedOwnComments /\ [][ConstructedEmpty]_vars

\* the second session holds a comment of its own, after one of its comments
\* was removed and after the first session had a comment too
C35_Witness ==
    /\ session # None
    /\ Get(session).sid = 2
    /\ hist.live = 1
    /\ \E i, j, k \in 1..Len(hist.issued) :
        /\ hist.issued[i].sid = 1
        /\ hist.issued[j].sid = 2 /\ ~HasComment(Get(session), hist.issued[j].n)
        /\ hist.issued[k].sid = 2 /\ HasComment(Get(session), hist.issued[k].n)

----------------------------------------------------------------------------
(* Claims settled on the reference chosen at start *)

\* C36: a session is constructed only with a base reference for which the
\* reference-validity check returned true in that same start; when the
\* chosen reference is invalid, start creates no session.
C36_SessionOnlyOnValidRef ==
    [][\A t \in BagToSet(tasks), selectedRef \in ChosenRefs,
          validRefs \in SUBSET (ChosenRefs \cup {EmptyTree}), typed \in BOOLEAN,
          git \in StartScenarios :
         StartChosen(t, selectedRef, validRefs, typed, git) =>
            /\ (session' # session
                  => IsValidRef(Get(session').baseRef, validRefs))
            /\ (~IsValidRef(selectedRef, validRefs) => session' = session)]_vars

\* a session is constructed only with a base reference isValidRef accepted
\* in that same start
SessionRefChecked ==
    [][\A t \in BagToSet(tasks), selectedRef \in ChosenRefs,
          validRefs \in SUBSET (ChosenRefs \cup {EmptyTree}), typed \in BOOLEAN,
          git \in StartScenarios :
         (StartChosen(t, selectedRef, validRefs, typed, git) /\ session' # session)
            => IsValidRef(Get(session').baseRef, validRefs)]_vars

----------------------------------------------------------------------------
(* Claims settled on the order of the resolver's result *)

\* the paths a command reports, line by line (the empty path: none)
ReportedPaths(reports) == [i \in 1..Len(reports) |-> reports[i].path]

\* `known` followed by the non-empty paths of `paths` not seen before, in
\* the order of `paths`
RECURSIVE AppendFresh(_, _)
AppendFresh(known, paths) ==
    IF paths = <<>> THEN known
    ELSE AppendFresh(IF Head(paths) = <<>> \/ Head(paths) \in SeqToSet(known)
                     THEN known ELSE Append(known, Head(paths)),
                     Tail(paths))

\* C37: the resolver's result is exactly the concatenation, in the order
\* committed, staged, unstaged, untracked, of each successful pass's non-empty
\* paths in source order with every path already seen earlier removed: every
\* path reported by a successful pass appears in the result, and no path
\* appears that no pass reported. Stated pass by pass: whatever a pass is
\* answered, it leaves the paths found so far followed by its own new paths.
C37_ResultIsOrderedUnion ==
    LET acc == [files |-> rFiles, seen |-> rSeen]
    IN /\ rpc = "committed" => rFiles = <<>>
       /\ rpc = "committed" =>
            \A out \in StatusOutputs :
                Paths(CommittedPass(acc, out).files)
                  = AppendFresh(Paths(rFiles), ReportedPaths(StatusReports(out)))
       /\ rpc \in {"staged", "unstaged"} =>
            \A out \in StatusOutputs :
                Paths(WorkingPass(acc, out).files)
                  = AppendFresh(Paths(rFiles), ReportedPaths(StatusReports(out)))
       /\ rpc = "untracked" =>
            \A out \in UntrackedOutputs :
                Paths(UntrackedPass(acc, out).files)
                  = AppendFresh(Paths(rFiles), ReportedPaths(UntrackedReports(out)))

\* a result of three passes: a committed path, a working-tree path and an
\* untracked path, with reports of known paths dropped on the way
C37_Witness ==
    /\ rpc = "done"
    /\ Paths(rFiles) = <<PathA, PathB, PathZ>>
    /\ rFiles[3].status = "added"
    /\ hist.offered > 3

----------------------------------------------------------------------------
(* Claims settled on file navigation *)

NavFiles == Len(Get(session).files)

\* the index is a position of the session's file list, and stepping forward
\* and then back from it gives it again
IndexInRange ==
    Active =>
        /\ currentFileIndex \in 0..(NavFiles - 1)
        /\ NextIndex(currentFileIndex, NavFiles) \in 0..(NavFiles - 1)
        /\ PrevIndex(currentFileIndex, NavFiles) \in 0..(NavFiles - 1)
        /\ PrevIndex(NextIndex(currentFileIndex, NavFiles), NavFiles)
             = currentFileIndex

\* nextFile and prevFile move by one position and wrap around
NavWraps ==
    /\ (Active /\ NextFile) =>
          currentFileIndex' = (IF currentFileIndex = NavFiles - 1 THEN 0
                               ELSE currentFileIndex + 1)
    /\ (Active /\ PrevFile) =>
          currentFileIndex' = (IF currentFileIndex = 0 THEN NavFiles - 1
                               ELSE currentFileIndex - 1)

\* C38: whenever a session is Active, the navigation index satisfies
\* 0 <= currentFileIndex < number of files in the session, after any sequence
\* of nextFile, prevFile, openFileDiff, cancel and start; nextFile and
\* prevFile wrap around, and nextFile followed by prevFile returns to the
\* same index.
C38_IndexInRange ==
    []IndexInRange /\ [][NavWraps]_vars

\* the second session, of two files, is at its last file
C38_Witness ==
    /\ Active
    /\ Get(session).sid = 2
    /\ NavFiles = 2
    /\ currentFileIndex = 1

----------------------------------------------------------------------------
(* Claims settled on the edit of a comment *)

\* what updateComment on a present comment leaves of the comment objects
UpdateFrame ==
    session # None =>
        \A n \in SeqToSet(Get(session).comments),
           severity \in {None} \cup {Some(v) : v \in Severities} :
            LET after == UpdateComment(Get(session), heap, n, EditedText, severity)
            IN /\ DOMAIN after = DOMAIN heap
               /\ after[n].body = EditedText
               /\ after[n].severity = (IF severity = None THEN heap[n].severity
                                       ELSE Get(severity))
               /\ after[n] = [heap[n] EXCEPT !.body = after[n].body,
                                             !.severity = after[n].severity]
               /\ \A m \in DOMAIN heap \ {n} : after[m] = heap[m]

\* a call of updateComment leaves the session's files, their reviewed flags
\* and the set and order of its comments
UpdateKeepsSession ==
    \A n \in ApiRefs, severity \in {None} \cup {Some(v) : v \in Severities} :
        CallUpdateComment(n, EditedText, severity) =>
            /\ session' = session
            /\ nextCommentId' = nextCommentId
            /\ heap' = UpdateComment(Get(session), heap, n, EditedText, severity)

\* C39: updateComment(id, body, severity?) on a present comment changes only
\* that comment's body, and its severity only when a severity is supplied;
\* the comment's id, file, line, endLine, resolved flag and timestamp, every
\* other comment, and every file's reviewed flag are unchanged.
C39_UpdateFrame ==
    []UpdateFrame /\ [][UpdateKeepsSession]_vars

\* two comments, one edited and resolved, the other as it was added, and a
\* reviewed file
C39_Witness ==
    /\ session # None
    /\ CountReviewed(Get(session).files) > 0
    /\ \E n, m \in SeqToSet(Get(session).comments) :
        /\ n # m
        /\ heap[n].body = EditedText /\ heap[n].resolved
        /\ heap[n].severity # "suggestion"
        /\ heap[m].body = ReplyText

----------------------------------------------------------------------------
(* Claims settled on the diff content cache *)

\* C40: the diff content cache never serves content fetched for an earlier
\* session: after the cache is cleared at session start or cancel, every
\* entry in the cache was fetched after that clear, even when a content fetch
\* was in flight at the moment of the clear.
C40_CacheFetchedAfterClear ==
    \A key \in DOMAIN cache : ~cache[key].stale
====
